---- MODULE Spec2Model ----
(***************************************************************************)
(* A model of video-to-shorts: the CLI's job scheduler                     *)
(* (processVideosInParallel), the Analyzer (constructor and analyzeFrame), *)
(* the segment planner (VideoProcessor.applyActions) and one job's         *)
(* pipeline (VideoProcessor.processVideo).                                 *)
(*                                                                         *)
(* Fractions are kept in fixed point: confidences and thresholds are       *)
(* hundredths (0.7 is 70), trim bounds are thirtieths of a second.         *)
(***************************************************************************)
EXTENDS Integers, Sequences, FiniteSets, TLC

VARIABLES
  \* ---- processVideosInParallel (CLI) ----
  videoFiles,     \* the input list
  jobs,           \* Number(options.jobs)
  cpus,           \* os.cpus().length
  queue,          \* const queue = [...videoFiles]
  inProgress,     \* const inProgress = new Set<string>()
  started,        \* the videos processVideo was called for, in call order
  call,           \* call[i]: the state of the promise of the i-th processVideo call
  reaction,       \* the call whose then/catch reaction is the pending microtask (0: none)
  handled,        \* the calls whose then/catch reaction has run
  errorLog,       \* the videos logger.error was called for
  schedPc,        \* the position of processVideosInParallel
  \* ---- Analyzer (and the VideoProcessor constructor around it) ----
  ctor,           \* the constructor called: "VideoProcessor" or "Analyzer"
  anConfig,       \* the AnalyzerConfig handed to it
  anPc,           \* "new", "constructed" or "threw"
  thrown,         \* the message of the Error the constructor threw ("" if none)
  errorListeners, \* the emitters a caller's "error" listener is registered on
  anCalls,        \* the classification calls made (client.chat.completions.create)
  anLast,         \* the last analyzeFrame call: its input and how it settled
  \* ---- VideoProcessor.applyActions (the segment planner) ----
  actions,        \* the ActionMap: its entries in insertion order
  startTime,      \* the start time in effect, as its numbers ("00:30" is <<0, 30>>)
  endTime,        \* the end time in effect
  planPc,         \* "ready", "running" (the transcoder runs), "resolved", "rejected"
  plan,           \* what applyActions built: the command, the events, the segments
  \* ---- VideoProcessor.processVideo (one job) ----
  jobPc,          \* the position of processVideo
  frameInterval,  \* this.config.frameInterval
  parallelFrames, \* this.config.parallelFrames
  tempFrames,     \* the numbers n of the files frame-n.jpg in the job's temp directory
  frames,         \* const frames = await fs.readdir(framesDir), as frame numbers
  batchStart,     \* the i of the batch loop of analyzeFrames
  frameState,     \* frameState[j]: how far the callback of frames[j] has come
  processedFrames,\* let processedFrames
  events,         \* the "processing" events emitted, in order
  errorEvents,    \* the frames of the "error" events delivered to the caller's listener
  failedFrames,   \* the frames whose classification call failed
  extractCalls,   \* the extraction runs of the transcoder
  \* ---- processVideo: the names it derives from the video path ----
  batchDir,       \* the name of the directory the videos of the batch are in
  batchFiles,     \* the file names of the videos processVideo is called for
  configWindow,   \* this.config.startTime and this.config.endTime
  jobPaths,       \* what each processVideo call derived, in call order
  \* ---- the CLI's action handler ----
  cliInput,       \* what the input path names: nothing, a file or a directory
  dirContents,    \* fs.readdir of the input directory
  cliPc,          \* the position of the action handler
  exitCode,       \* the code process.exit was called with (-1: not called)
  cliLog,         \* the level and text of what the run logged last
  \* ---- several jobs of one run, each in its classification phase ----
  fleetConfig,    \* the run's settings: job bound, batch size, error listener
  fleet,          \* fleet[k]: the job of the k-th video of the input list
  \* ---- the temp directory of one video name over successive runs ----
  tempDir,        \* the names of the files in tempFramesDir
  runConfig,      \* this.config: parallelFrames, frameInterval
  runs,           \* processVideo calls made for this video name
  runPc,          \* where the current processVideo call is
  written,        \* the files the current run's extraction wrote
  loopFrames,     \* analyzeFrames: the result of fs.readdir
  loopI,          \* analyzeFrames: the loop variable i
  pendingFrames,  \* analyzeFrames: indices of the batch's unsettled callbacks
  classified,     \* the files handed to analyzeFrame in this run, in order
  loopActions     \* analyzeFrames: the ActionMap being filled

schedVars == <<videoFiles, jobs, cpus, queue, inProgress, started, call,
               reaction, handled, errorLog, schedPc>>

anVars == <<ctor, anConfig, anPc, thrown, errorListeners, anCalls, anLast>>

planVars == <<actions, startTime, endTime, planPc, plan>>

jobVars == <<jobPc, frameInterval, parallelFrames, tempFrames, frames,
             batchStart, frameState, processedFrames, events, errorEvents,
             failedFrames, extractCalls>>

pathVars == <<batchDir, batchFiles, configWindow, jobPaths>>

cliVars == <<cliInput, dirContents, cliPc, exitCode, cliLog>>

fleetVars == <<fleetConfig, fleet>>

runVars == <<tempDir, runConfig, runs, runPc, written, loopFrames, loopI,
             pendingFrames, classified, loopActions>>

notSched == <<anVars, planVars, jobVars, pathVars, cliVars, fleetVars,
  runVars>>

notAnalyzer == <<schedVars, planVars, jobVars, pathVars, cliVars, fleetVars,
  runVars>>

notPlan == <<schedVars, anVars, jobVars, pathVars, cliVars, fleetVars,
  runVars>>

notPaths == <<schedVars, anVars, planVars, jobVars, cliVars, fleetVars,
  runVars>>

notFleet == <<schedVars, anVars, planVars, jobVars, pathVars, cliVars,
  runVars>>

notRuns == <<schedVars, anVars, planVars, jobVars, pathVars, cliVars,
  fleetVars>>

vars == <<schedVars, anVars, planVars, jobVars, pathVars, cliVars, fleetVars,
  runVars>>

----------------------------------------------------------------------------
(* Bounds of the model *)

MaxVideos == 3
MaxCpus == 2
MaxJobs == 3
MaxFrames == 3
MaxCalls == 2
MaxParallel == 2
MaxBatch == 2
MaxFleet == 2
MaxFleetFrames == 2

\* processVideo calls for one video name, frames one extraction writes, and
\* how far below 0 the loop variable of analyzeFrames is followed
MaxRuns == 2
MaxRunFrames == 2
MaxBelowZero == 2

----------------------------------------------------------------------------
(* JavaScript numbers: Number(s) of a non-numeric string is NaN, and every *)
(* comparison with NaN is false.                                           *)

NaN == -1000

JsLt(a, b) == a # NaN /\ b # NaN /\ a < b

MathMin(a, b) == IF a = NaN \/ b = NaN THEN NaN ELSE IF a < b THEN a ELSE b

MathMax(a, b) == IF a = NaN \/ b = NaN THEN NaN ELSE IF a > b THEN a ELSE b

Range(s) == {s[i] : i \in DOMAIN s}

NoDup(s) == \A i, j \in DOMAIN s : i # j => s[i] # s[j]

SeqsUpTo(S, n) == UNION {[1..k -> S] : k \in 0..n}

----------------------------------------------------------------------------
(* Each specification below runs one part of the program; the parts it does *)
(* not run stay as they are before anything is called.                      *)

SchedIdle ==
  /\ videoFiles = <<>>
  /\ jobs = 1
  /\ cpus = 1
  /\ queue = <<>>
  /\ inProgress = {}
  /\ started = <<>>
  /\ call = <<>>
  /\ reaction = 0
  /\ handled = {}
  /\ errorLog = <<>>
  /\ schedPc = "idle"

NoConfig ==
  [given |-> FALSE, hasThreshold |-> FALSE, confidenceThreshold |-> 0,
   hasKey |-> FALSE, openaiApiKey |-> ""]

NothingThrown == [message |-> "", issues |-> {}]

AnalyzerIdle ==
  /\ ctor = "none"
  /\ anConfig = NoConfig
  /\ anPc = "idle"
  /\ thrown = NothingThrown
  /\ errorListeners = {}
  /\ anCalls = 0
  /\ anLast = <<>>

PlanIdle ==
  /\ actions = <<>>
  /\ startTime = <<>>
  /\ endTime = <<>>
  /\ planPc = "idle"
  /\ plan = <<>>

JobIdle ==
  /\ jobPc = "idle"
  /\ frameInterval = 1
  /\ parallelFrames = 1
  /\ tempFrames = {}
  /\ frames = <<>>
  /\ batchStart = 0
  /\ frameState = <<>>
  /\ processedFrames = 0
  /\ events = <<>>
  /\ errorEvents = <<>>
  /\ failedFrames = {}
  /\ extractCalls = 0

NoWindow == [startTime |-> <<>>, endTime |-> <<>>]

PathsIdle ==
  /\ batchDir = ""
  /\ batchFiles = <<>>
  /\ configWindow = NoWindow
  /\ jobPaths = <<>>

NothingLogged == [level |-> "", text |-> ""]

CliIdle ==
  /\ cliInput = "none"
  /\ dirContents = <<>>
  /\ cliPc = "idle"
  /\ exitCode = -1
  /\ cliLog = NothingLogged

NoFleet == [maxConcurrent |-> 1, parallelFrames |-> 1, errorListener |-> TRUE]

FleetIdle ==
  /\ fleetConfig = NoFleet
  /\ fleet = <<>>

NoRunConfig == [parallelFrames |-> 1, frameInterval |-> 1]

RunsIdle ==
  /\ tempDir = {}
  /\ runConfig = NoRunConfig
  /\ runs = 0
  /\ runPc = "idle"
  /\ written = {}
  /\ loopFrames = <<>>
  /\ loopI = 0
  /\ pendingFrames = {}
  /\ classified = <<>>
  /\ loopActions = <<>>

----------------------------------------------------------------------------
(* processVideosInParallel *)

VideoNames == 1..MaxVideos

\* readdir of the input directory: distinct file names, at least one (the CLI
\* exits before the scheduler when there are none).
VideoLists == {s \in SeqsUpTo(VideoNames, MaxVideos) : Len(s) >= 1 /\ NoDup(s)}

JobsInputs == (-1..MaxJobs) \cup {NaN}

\* const maxConcurrent = Math.max(1, Math.min(jobs, os.cpus().length))
maxConcurrent(j, c) == MathMax(1, MathMin(j, c))

whileQueueOnly == Len(queue) > 0

\* while (queue.length > 0 || inProgress.size > 0)
whileCond == Len(queue) > 0 \/ Cardinality(inProgress) > 0

fillCondInclusive ==
  Len(queue) > 0 /\ ~JsLt(maxConcurrent(jobs, cpus), Cardinality(inProgress))

\* while (queue.length > 0 && inProgress.size < maxConcurrent)
fillCond ==
  Len(queue) > 0 /\ JsLt(Cardinality(inProgress), maxConcurrent(jobs, cpus))

SchedInit ==
  /\ AnalyzerIdle
  /\ PlanIdle
  /\ JobIdle
  /\ PathsIdle
  /\ CliIdle
  /\ FleetIdle
  /\ RunsIdle
  /\ videoFiles \in VideoLists
  /\ jobs \in JobsInputs
  /\ cpus \in 1..MaxCpus
  /\ queue = videoFiles
  /\ inProgress = {}
  /\ started = <<>>
  /\ call = <<>>
  /\ reaction = 0
  /\ handled = {}
  /\ errorLog = <<>>
  /\ schedPc = "while"

\* The outer loop's test: another round, or the function returns.
WhileTest ==
  /\ schedPc = "while"
  /\ schedPc' = IF whileCond THEN "fill" ELSE "returned"
  /\ UNCHANGED <<videoFiles, jobs, cpus, queue, inProgress, started, call,
                 reaction, handled, errorLog>>
  /\ UNCHANGED notSched

AdmitFromBack ==
  /\ schedPc = "fill"
  /\ fillCond
  /\ LET video == queue[Len(queue)] IN
       /\ queue' = SubSeq(queue, 1, Len(queue) - 1)
       /\ inProgress' = inProgress \cup {video}
       /\ started' = Append(started, video)
       /\ call' = Append(call, "pending")
  /\ UNCHANGED <<videoFiles, jobs, cpus, reaction, handled, errorLog,
                 schedPc>>
  /\ UNCHANGED notSched

\* One round of the inner loop: queue.shift(), inProgress.add(video),
\* videoProcessor.processVideo(videoPath) with its then/catch attached.
Admit ==
  /\ schedPc = "fill"
  /\ fillCond
  /\ LET video == Head(queue) IN
       /\ queue' = Tail(queue)
       /\ inProgress' = inProgress \cup {video}
       /\ started' = Append(started, video)
       /\ call' = Append(call, "pending")
  /\ UNCHANGED <<videoFiles, jobs, cpus, reaction, handled, errorLog,
                 schedPc>>
  /\ UNCHANGED notSched

\* The inner loop ends: await new Promise((resolve) => setTimeout(resolve, 100))
Sleep ==
  /\ schedPc = "fill"
  /\ ~fillCond
  /\ schedPc' = "sleep"
  /\ UNCHANGED <<videoFiles, jobs, cpus, queue, inProgress, started, call,
                 reaction, handled, errorLog>>
  /\ UNCHANGED notSched

\* The timer fires, once no microtask is pending: back to the outer test.
TimerFires ==
  /\ schedPc = "sleep"
  /\ reaction = 0
  /\ schedPc' = "while"
  /\ UNCHANGED <<videoFiles, jobs, cpus, queue, inProgress, started, call,
                 reaction, handled, errorLog>>
  /\ UNCHANGED notSched

\* The promise of the i-th processVideo call settles, while the scheduler is
\* not running (JavaScript runs each callback to completion); its reaction is
\* the next microtask.
Settle(i, outcome) ==
  /\ schedPc \in {"sleep", "returned"}
  /\ reaction = 0
  /\ i \in DOMAIN call
  /\ call[i] = "pending"
  /\ call' = [call EXCEPT ![i] = outcome]
  /\ reaction' = i
  /\ UNCHANGED <<videoFiles, jobs, cpus, queue, inProgress, started, handled,
                 errorLog, schedPc>>
  /\ UNCHANGED notSched

ThenHandlerNoDelete ==
  /\ reaction # 0
  /\ call[reaction] = "fulfilled"
  /\ handled' = handled \cup {reaction}
  /\ reaction' = 0
  /\ UNCHANGED <<videoFiles, jobs, cpus, queue, inProgress, started, call,
                 errorLog, schedPc>>
  /\ UNCHANGED notSched

\* .then(() => { inProgress.delete(video); })
ThenHandler ==
  /\ reaction # 0
  /\ call[reaction] = "fulfilled"
  /\ inProgress' = inProgress \ {started[reaction]}
  /\ handled' = handled \cup {reaction}
  /\ reaction' = 0
  /\ UNCHANGED <<videoFiles, jobs, cpus, queue, started, call, errorLog,
                 schedPc>>
  /\ UNCHANGED notSched

CatchHandlerNoDelete ==
  /\ reaction # 0
  /\ call[reaction] = "rejected"
  /\ errorLog' = Append(errorLog, started[reaction])
  /\ handled' = handled \cup {reaction}
  /\ reaction' = 0
  /\ UNCHANGED <<videoFiles, jobs, cpus, queue, inProgress, started, call,
                 schedPc>>
  /\ UNCHANGED notSched

\* .catch((error) => { logger.error(...); inProgress.delete(video); })
CatchHandler ==
  /\ reaction # 0
  /\ call[reaction] = "rejected"
  /\ errorLog' = Append(errorLog, started[reaction])
  /\ inProgress' = inProgress \ {started[reaction]}
  /\ handled' = handled \cup {reaction}
  /\ reaction' = 0
  /\ UNCHANGED <<videoFiles, jobs, cpus, queue, started, call, schedPc>>
  /\ UNCHANGED notSched

SchedNext ==
  \/ WhileTest
  \/ Admit
  \/ Sleep
  \/ TimerFires
  \/ \E i \in 1..MaxVideos : \E outcome \in {"fulfilled", "rejected"} :
       Settle(i, outcome)
  \/ ThenHandler
  \/ CatchHandler

SpecSched == SchedInit /\ [][SchedNext]_vars

\* The scheduler with its progress conditions: the loop's own steps and the
\* timer of its sleep are taken when they can be (the event loop runs a ready
\* callback), and so is the reaction of a settled promise (a microtask).
\* Every started call eventually settles: a call can settle whenever the
\* scheduler sleeps, which it does again and again, so it settles in the end.
SpecSchedFair ==
  /\ SchedInit
  /\ [][SchedNext]_vars
  /\ WF_vars(WhileTest)
  /\ WF_vars(Admit)
  /\ WF_vars(Sleep)
  /\ WF_vars(TimerFires)
  /\ WF_vars(ThenHandler)
  /\ WF_vars(CatchHandler)
  /\ \A i \in 1..MaxVideos :
       SF_vars(\E outcome \in {"fulfilled", "rejected"} : Settle(i, outcome))

\* The processVideo calls started and not yet settled.
InFlight == {i \in DOMAIN call : call[i] = "pending"}

----------------------------------------------------------------------------
(* Claims about the job scheduler, checked under SpecSched *)

\* C1: with concurrency bound N, at most N processVideo calls are started and
\* not yet settled in any reachable state (when the requested job count is not
\* a number there is no bound N, and then no call is ever started).
C1_InFlightAtMostN ==
  LET N == maxConcurrent(jobs, cpus) IN
    IF N = NaN THEN InFlight = {} ELSE Cardinality(InFlight) <= N

\* The bound is reached while a video is still waiting in the queue.
C1_Witness ==
  /\ maxConcurrent(jobs, cpus) >= 2
  /\ Cardinality(InFlight) = maxConcurrent(jobs, cpus)
  /\ Len(queue) > 0

\* C2: processVideosInParallel returns only when the queue and the in-flight
\* set are empty and the processVideo call of every input video has settled.
C2_ReturnsOnlyWhenDrained ==
  schedPc = "returned" =>
    /\ queue = <<>>
    /\ inProgress = {}
    /\ Len(call) = Len(videoFiles)
    /\ \A i \in DOMAIN call : call[i] # "pending"

\* The scheduler has returned after several jobs, some fulfilled, some rejected.
C2_Witness ==
  /\ schedPc = "returned"
  /\ Len(videoFiles) >= 2
  /\ \E i, j \in DOMAIN call : call[i] = "fulfilled" /\ call[j] = "rejected"

C3_Inv ==
  /\ \A i \in handled : call[i] = "rejected" =>
       started[i] \notin inProgress /\ started[i] \in Range(errorLog)
  /\ \A i \in InFlight : started[i] \in inProgress
  /\ schedPc = "returned" => started = videoFiles

C3_Step ==
  (reaction # 0 /\ call[reaction] = "rejected") =>
    /\ inProgress' = inProgress \ {started[reaction]}
    /\ queue' = queue
    /\ call' = call
    /\ schedPc' = schedPc

\* C3: a rejected processVideo call is caught inside the scheduler: its video
\* leaves the in-flight set and is logged, the catch leaves the queue, the
\* scheduler's position and every other call as they are (no sibling is
\* cancelled, the scheduler does not reject), and the scheduler still starts
\* every queued video before it returns.
C3_RejectionCaught == []C3_Inv /\ [][C3_Step]_vars

\* A rejection was caught and a later video of the queue was still started,
\* and the scheduler returned.
C3_Witness ==
  /\ schedPc = "returned"
  /\ \E i, j \in DOMAIN call : i < j /\ call[i] = "rejected" /\ i \in handled

----------------------------------------------------------------------------
(* The Analyzer: its constructor (reached directly or through the          *)
(* VideoProcessor constructor) and analyzeFrame.                            *)

\* confidenceThreshold values a caller may pass, in hundredths
ThresholdInputs == {-10, 0, 70, 100, 150, NaN}

ApiKeyInputs == {"", "test-key"}

\* The analyzer configs a caller may pass: a field that is not given holds
\* its placeholder.
AnalyzerConfigs ==
  {c \in [given : {TRUE}, hasThreshold : BOOLEAN,
          confidenceThreshold : ThresholdInputs,
          hasKey : BOOLEAN, openaiApiKey : ApiKeyInputs] :
     /\ (~c.hasThreshold => c.confidenceThreshold = 0)
     /\ (~c.hasKey => c.openaiApiKey = "")}

analyzerConfigSchemaNoMax(config) ==
  (IF config.hasThreshold /\ config.confidenceThreshold = NaN
     THEN {"confidenceThreshold: Expected number, received nan"} ELSE {})
  \cup
  (IF config.hasThreshold /\ JsLt(config.confidenceThreshold, 0)
     THEN {"confidenceThreshold: Number must be greater than or equal to 0"}
     ELSE {})
  \cup
  (IF ~config.hasKey THEN {"openaiApiKey: Required"} ELSE {})
  \cup
  (IF config.hasKey /\ Len(config.openaiApiKey) < 1
     THEN {"openaiApiKey: String must contain at least 1 character(s)"}
     ELSE {})

\* analyzerConfigSchema.safeParse(config): the issues found
\*   confidenceThreshold: z.number().min(0).max(1).optional()
\*   openaiApiKey: z.string().min(1)
analyzerConfigSchema(config) ==
  (IF config.hasThreshold /\ config.confidenceThreshold = NaN
     THEN {"confidenceThreshold: Expected number, received nan"} ELSE {})
  \cup
  (IF config.hasThreshold /\ JsLt(config.confidenceThreshold, 0)
     THEN {"confidenceThreshold: Number must be greater than or equal to 0"}
     ELSE {})
  \cup
  (IF config.hasThreshold /\ JsLt(100, config.confidenceThreshold)
     THEN {"confidenceThreshold: Number must be less than or equal to 1"}
     ELSE {})
  \cup
  (IF ~config.hasKey THEN {"openaiApiKey: Required"} ELSE {})
  \cup
  (IF config.hasKey /\ Len(config.openaiApiKey) < 1
     THEN {"openaiApiKey: String must contain at least 1 character(s)"}
     ELSE {})

Actions == {"keep", "remove", "speed_up"}

\* confidences the classification service may answer, in hundredths
Confidences == {0, 50, 70, 100}

\* What client.chat.completions.create can give: it throws or rejects, a
\* response without choices, a message without a tool call, a tool call of
\* another function, arguments that are no JSON, or a tool call with parsed
\* arguments.
FailedResponses ==
  {[kind |-> k, action |-> "keep", confidence |-> 0] :
     k \in {"throws", "noChoices", "noToolCall", "otherTool", "badJson"}}

\* What JSON.parse(toolCall.function.arguments) can hold: the service is
\* asked for an action of the enum and a confidence in [0,1], and nothing
\* checks what it sends. "undefined" and NaN stand for a field that is missing
\* (a missing confidence compares like NaN).
ArgumentActions == Actions \cup {"delete", "undefined"}

ArgumentConfidences == Confidences \cup {-10, 150, NaN}

ServiceResponses ==
  FailedResponses \cup
  [kind : {"ok"}, action : ArgumentActions, confidence : ArgumentConfidences]

defaultKeepZeroConfidence(frameNumber) ==
  [action |-> "keep", confidence |-> 0, frame |-> frameNumber]

\* return { action: "keep", confidence: 1, frame: frameNumber }
defaultKeep(frameNumber) ==
  [action |-> "keep", confidence |-> 100, frame |-> frameNumber]

Resolved(analysis, event) ==
  [settled |-> "resolved", action |-> analysis.action,
   confidence |-> analysis.confidence, frame |-> analysis.frame,
   event |-> event]

Rejected(frameNumber, event) ==
  [settled |-> "rejected", action |-> "none", confidence |-> 0,
   frame |-> frameNumber, event |-> event]

\* Analyzer.analyzeFrame for one answer of the service. emitThrows: the
\* EventEmitter has nobody to deliver an "error" event to, so emit("error")
\* throws, inside the catch block.
analyzeFrame(response, frameNumber, emitThrows) ==
  IF response.kind \in {"throws", "noChoices", "badJson"}
    THEN \* catch (error) { this.emit("error", ...); return default }
         IF emitThrows
           THEN Rejected(frameNumber, "error")
           ELSE Resolved(defaultKeep(frameNumber), "error")
  ELSE IF response.kind = "ok"
    THEN \* toolCall?.function.name === "analyzeFrame": JSON.parse(arguments)
         Resolved([action |-> response.action,
                   confidence |-> response.confidence,
                   frame |-> frameNumber], "none")
  ELSE \* this.emit("debug", {type: "warning", ...}); return default
       Resolved(defaultKeep(frameNumber), "warning")

\* Whether an "error" event emitted by the Analyzer ends in a throw: emit
\* throws on an emitter without an "error" listener. A VideoProcessor
\* registers on its analyzer a listener that emits the event again on the
\* VideoProcessor itself.
emitErrorThrows(by, listeners) ==
  IF by = "VideoProcessor"
    THEN "processor" \notin listeners
    ELSE "analyzer" \notin listeners

AnalyzerInit ==
  /\ SchedIdle
  /\ PlanIdle
  /\ JobIdle
  /\ PathsIdle
  /\ CliIdle
  /\ FleetIdle
  /\ RunsIdle
  /\ ctor \in {"VideoProcessor", "Analyzer"}
  /\ anConfig \in AnalyzerConfigs \cup
                   (IF ctor = "VideoProcessor" THEN {NoConfig} ELSE {})
  /\ anPc = "new"
  /\ thrown = NothingThrown
  /\ errorListeners = {}
  /\ anCalls = 0
  /\ anLast = <<>>

\* new Analyzer(config), or new VideoProcessor({analyzerConfig, ...}), which
\* builds its Analyzer when an analyzerConfig is given.
construct ==
  /\ anPc = "new"
  /\ LET issues == IF anConfig.given THEN analyzerConfigSchema(anConfig)
                   ELSE {} IN
       IF issues # {}
         THEN /\ anPc' = "threw"
              /\ thrown' = [message |-> "Invalid analyzer config",
                            issues |-> issues]
         ELSE /\ anPc' = "constructed"
              /\ UNCHANGED thrown
  /\ UNCHANGED <<ctor, anConfig, errorListeners, anCalls, anLast>>
  /\ UNCHANGED notAnalyzer

\* processor.on("error", listener) / analyzer.on("error", listener)
onError(emitter) ==
  /\ anPc = "constructed"
  /\ emitter = "processor" => ctor = "VideoProcessor"
  /\ emitter = "analyzer" => anConfig.given
  /\ emitter \notin errorListeners
  /\ errorListeners' = errorListeners \cup {emitter}
  /\ UNCHANGED <<ctor, anConfig, anPc, thrown, anCalls, anLast>>
  /\ UNCHANGED notAnalyzer

\* One analyzeFrame call, from the classification call to its settling.
callAnalyzeFrame(frameNumber, response) ==
  /\ anPc = "constructed"
  /\ anConfig.given
  /\ anCalls < MaxCalls
  /\ anCalls' = anCalls + 1
  /\ anLast' = <<[response |-> response,
                  result |-> analyzeFrame(response, frameNumber,
                               emitErrorThrows(ctor, errorListeners))]>>
  /\ UNCHANGED <<ctor, anConfig, anPc, thrown, errorListeners>>
  /\ UNCHANGED notAnalyzer

AnalyzerNext ==
  \/ construct
  \/ \E emitter \in {"processor", "analyzer"} : onError(emitter)
  \/ \E frameNumber \in 1..MaxFrames : \E response \in ServiceResponses :
       callAnalyzeFrame(frameNumber, response)

SpecAnalyzer == AnalyzerInit /\ [][AnalyzerNext]_vars

----------------------------------------------------------------------------
(* Claims about the Analyzer, checked under SpecAnalyzer *)

\* C4: analyzeFrame never rejects: whatever the classification call gives
\* (it throws, no choices, no tool call, arguments that are no JSON), the
\* promise resolves, and in each failure case to action keep, confidence 1.0.
C4_AnalyzeFrameNeverRejects ==
  \A i \in DOMAIN anLast :
    /\ anLast[i].result.settled = "resolved"
    /\ anLast[i].response \in FailedResponses =>
         anLast[i].result.action = "keep" /\ anLast[i].result.confidence = 100

\* C6: constructing a VideoProcessor or an Analyzer with an analyzer config
\* whose confidenceThreshold is outside [0,1] or whose openaiApiKey is missing
\* or empty throws 'Invalid analyzer config', with no classification call made.
C6_InvalidConfigThrows ==
  (/\ anPc \notin {"new", "idle"}
   /\ anConfig.given
   /\ \/ anConfig.hasThreshold /\ anConfig.confidenceThreshold # NaN
         /\ (anConfig.confidenceThreshold < 0 \/ anConfig.confidenceThreshold > 100)
      \/ ~anConfig.hasKey
      \/ anConfig.openaiApiKey = "")
  => /\ anPc = "threw"
     /\ thrown.message = "Invalid analyzer config"
     /\ thrown.issues # {}
     /\ anCalls = 0

\* A VideoProcessor constructed with confidenceThreshold 1.5 and a valid key
\* has thrown.
C6_Witness ==
  /\ ctor = "VideoProcessor"
  /\ anPc = "threw"
  /\ anConfig.hasThreshold /\ anConfig.confidenceThreshold = 150
  /\ anConfig.hasKey /\ anConfig.openaiApiKey # ""

\* C17: every FrameAnalysis analyzeFrame returns, for every response of the
\* classification service (a well-formed tool call whose arguments lack
\* fields or hold an out-of-range confidence or an unknown action included),
\* has its confidence in [0,1] and its action in {keep, remove, speed_up}.
C17_ResultInRange ==
  \A i \in DOMAIN anLast :
    anLast[i].result.settled = "resolved" =>
      /\ anLast[i].result.confidence \in 0..100
      /\ anLast[i].result.action \in Actions

----------------------------------------------------------------------------
(* VideoProcessor.applyActions: the segment planner and the command it     *)
(* hands to the transcoder.                                                 *)

\* Number.POSITIVE_INFINITY
Infinity == 1000000

\* DEFAULT_CRITERIA.confidenceThreshold (0.7), in hundredths
DefaultConfidenceThreshold == 70

\* the divisor of trim=start=${frameNumber / 30}:end=${nextFrameNumber / 30}
TrimDivisor == 30

\* this.emit("processing", {stage, message, data}): kind tells the messages
\* of one stage apart; frame, action and confidence are a skip notice's data,
\* current and total a progress notice's.
ProcessingEvent(stage, kind) ==
  [stage |-> stage, kind |-> kind, frame |-> 0, action |-> "",
   confidence |-> 0, current |-> 0, total |-> 0]

\* One piece of a filter string: t names it, a and b are its numbers (for a
\* trim, the numerators of its start and end over TrimDivisor, in seconds).
Tok(t, a, b) == [t |-> t, a |-> a, b |-> b]

\* [scale=-2:..., crop=..., pad=...].join(","): the reframing transform
ReframeChain == <<Tok("scale", 0, 0), Tok("crop", 0, 0), Tok("pad", 0, 0)>>

RECURSIVE SortAsc(_)
\* the numbers of a set in ascending order: .sort((a, b) => a - b)
SortAsc(S) ==
  IF S = {} THEN <<>>
  ELSE LET m == CHOOSE x \in S : \A y \in S : x <= y IN
         <<m>> \o SortAsc(S \ {m})

\* Map.set(key, value): a new key goes last, a known key keeps its place.
MapSet(m, entry) ==
  IF \E i \in DOMAIN m : m[i].key = entry.key
    THEN [i \in DOMAIN m |-> IF m[i].key = entry.key THEN entry ELSE m[i]]
    ELSE Append(m, entry)

\* Map.get(key)
MapGet(m, key) == CHOOSE e \in Range(m) : e.key = key

frameNumbersUnsorted(m) == [i \in DOMAIN m |-> m[i].key]

\* Array.from(actions.keys()).sort((a, b) => a - b)
frameNumbers(m) == SortAsc({m[i].key : i \in DOMAIN m})

\* this.config.analyzerConfig?.confidenceThreshold ?? DEFAULT_CRITERIA.confidenceThreshold
confidenceThreshold(config) ==
  IF config.given /\ config.hasThreshold
    THEN config.confidenceThreshold
    ELSE DefaultConfidenceThreshold

baseFilterAlwaysCopy(action) == "copy"

\* action.action === "speed_up" ? "setpts=0.5*PTS" : "copy"
baseFilter(action) == IF action = "speed_up" THEN "setpts=0.5*PTS" ELSE "copy"

removeNeverSkipped(action) == FALSE

\* if (!action || action.action === "remove") continue
removeSkipped(action) == action.action = "remove"

lowConfidenceInclusive(action, threshold) ==
  action.confidence = threshold \/ JsLt(action.confidence, threshold)

\* if (action.confidence < confidenceThreshold) { emit; continue }
lowConfidence(action, threshold) == JsLt(action.confidence, threshold)

EmptyLoop ==
  [filterComplex |-> ReframeChain, currentSegment |-> 0, events |-> <<>>,
   segments |-> <<>>]

RECURSIVE planLoop(_, _, _, _, _)
\* for (let i = 0; i < frameNumbers.length; i += 1) { ... }: the filter
\* string, the segment counter and the events after the rounds from i on.
\* segments lists what each round appended: the entry's key, the trim bounds
\* (over den), the filter and the label.
planLoop(m, fn, threshold, i, acc) ==
  IF i > Len(fn) THEN acc
  ELSE
    LET frameNumber == fn[i]
        nextFrameNumber == IF i + 1 <= Len(fn) THEN fn[i + 1] ELSE Infinity
        action == MapGet(m, frameNumber)
    IN
      IF removeSkipped(action)
        THEN planLoop(m, fn, threshold, i + 1, acc)
      ELSE IF lowConfidence(action, threshold)
        THEN planLoop(m, fn, threshold, i + 1,
               [acc EXCEPT !.events = Append(@,
                  [ProcessingEvent("applying_modifications", "skip")
                     EXCEPT !.frame = frameNumber,
                            !.action = action.action,
                            !.confidence = action.confidence])])
      ELSE
        planLoop(m, fn, threshold, i + 1,
          [acc EXCEPT
             !.filterComplex =
                @ \o <<Tok("[0:v]", 0, 0),
                       Tok("trim", frameNumber, nextFrameNumber),
                       Tok(baseFilter(action.action), 0, 0)>>
                  \o @ \o <<Tok("label", acc.currentSegment, 0)>>,
             !.currentSegment = @ + 1,
             !.segments = Append(@,
                [key |-> frameNumber, next |-> nextFrameNumber,
                 start |-> frameNumber, end |-> nextFrameNumber,
                 den |-> TrimDivisor,
                 filter |-> baseFilter(action.action),
                 label |-> acc.currentSegment])])

RECURSIVE timeToSecondsFrom(_, _)
timeToSecondsFrom(parts, i) ==
  IF i > Len(parts) THEN 0
  ELSE parts[Len(parts) + 1 - i] * (60 ^ (i - 1)) + timeToSecondsFrom(parts, i + 1)

timeToSecondsNoReverse(parts) ==
  LET at(i) == IF i \in DOMAIN parts THEN parts[i] * (60 ^ (i - 1)) ELSE 0 IN
    at(1) + at(2) + at(3)

\* timeToSeconds(time): time.split(":").map(Number).reverse(), summed with
\* weights 60 ** i
timeToSeconds(parts) == timeToSecondsFrom(parts, 1)

complexFilterAlwaysConcat(loop) ==
  [complexFilter |->
     [i \in 1..loop.currentSegment |-> Tok("ref", i - 1, 0)]
       \o <<Tok("concat", loop.currentSegment, 0)>>,
   map |-> "[outv]", events |-> <<>>]

\* if (currentSegment > 0) { complexFilter(concat of [v0]..).map("[outv]") }
\* else { emit "No segments met the confidence threshold..."; 
\*        complexFilter(`[0:v]${filterComplex}`) }
complexFilter(loop) ==
  IF loop.currentSegment > 0
    THEN [complexFilter |->
            [i \in 1..loop.currentSegment |-> Tok("ref", i - 1, 0)]
              \o <<Tok("concat", loop.currentSegment, 0)>>,
          map |-> "[outv]", events |-> <<>>]
    ELSE [complexFilter |-> <<Tok("[0:v]", 0, 0)>> \o loop.filterComplex,
          map |-> "",
          events |-> <<ProcessingEvent("applying_modifications",
                                       "fallback")>>]

\* applyActions up to command.run(): the command built and the events emitted
applyActions(m, config, start, end) ==
  LET loop == planLoop(m, frameNumbers(m), confidenceThreshold(config), 1,
                       EmptyLoop)
      graph == complexFilter(loop)
  IN
    [segments |-> loop.segments,
     filterComplex |-> loop.filterComplex,
     currentSegment |-> loop.currentSegment,
     command |->
       [setStartTime |-> start,
        hasDuration |-> end # <<>>,
        setDuration |-> IF end # <<>>
                          THEN timeToSeconds(end) -
                               timeToSeconds(IF start # <<>> THEN start
                                             ELSE <<0, 0, 0>>)
                          ELSE 0,
        complexFilter |-> graph.complexFilter,
        map |-> graph.map],
     events |-> loop.events \o graph.events \o
                <<ProcessingEvent("compiling_video", "")>>]

\* the keys and confidences of the ActionMaps the planner is run on
PlanKeys == {0, 30, 60}

PlanConfidences == {69, 70, 100}

PlanEntries == [key : PlanKeys, action : Actions, confidence : PlanConfidences]

ActionMaps ==
  {m \in SeqsUpTo(PlanEntries, Cardinality(PlanKeys)) :
     \A i, j \in DOMAIN m : i # j => m[i].key # m[j].key}

\* the analyzer configs a constructed VideoProcessor can hold
ValidConfigs ==
  {NoConfig} \cup {c \in AnalyzerConfigs : analyzerConfigSchema(c) = {}}

PlanInit ==
  /\ SchedIdle
  /\ JobIdle
  /\ PathsIdle
  /\ CliIdle
  /\ FleetIdle
  /\ RunsIdle
  /\ ctor = "VideoProcessor"
  /\ anConfig \in ValidConfigs
  /\ anPc = "constructed"
  /\ thrown = NothingThrown
  /\ errorListeners = {}
  /\ anCalls = 0
  /\ anLast = <<>>
  /\ actions \in ActionMaps
  /\ (~anConfig.given => actions = <<>>)
  /\ startTime \in {<<>>, <<0, 30>>}
  /\ endTime \in {<<>>, <<1, 30>>}
  /\ planPc = "ready"
  /\ plan = <<>>

\* applyActions(...): the loop, the command, command.run()
runApplyActions ==
  /\ planPc = "ready"
  /\ plan' = <<applyActions(actions, anConfig, startTime, endTime)>>
  /\ planPc' = "running"
  /\ UNCHANGED <<actions, startTime, endTime>>
  /\ UNCHANGED notPlan

\* .on("end", () => resolve()) / .on("error", reject)
transcoderEnds(outcome) ==
  /\ planPc = "running"
  /\ planPc' = outcome
  /\ UNCHANGED <<actions, startTime, endTime, plan>>
  /\ UNCHANGED notPlan

PlanNext ==
  \/ runApplyActions
  \/ \E outcome \in {"resolved", "rejected"} : transcoderEnds(outcome)

SpecPlan == PlanInit /\ [][PlanNext]_vars

----------------------------------------------------------------------------
(* Claims about the segment planner, checked under SpecPlan *)

\* C7: the planner never produces an empty output: when no entry of the
\* ActionMap yields a segment (the empty map, only remove entries, only
\* entries below the threshold), the transcoder gets exactly the whole-clip
\* graph [0:v] + the reframing transform, with no trim, no speed change and
\* no concat.
C7_FallbackWholeClip ==
  \A i \in DOMAIN plan :
    plan[i].segments = <<>> =>
      /\ plan[i].command.complexFilter = <<Tok("[0:v]", 0, 0)>> \o ReframeChain
      /\ plan[i].command.map = ""

\* The planner ran on a map that holds a remove entry and an entry below the
\* threshold, and nothing else: no segment.
C7_Witness ==
  /\ planPc = "running"
  /\ Len(plan) = 1 /\ plan[1].segments = <<>>
  /\ \E i, j \in DOMAIN actions :
       /\ actions[i].action = "remove"
       /\ actions[j].action # "remove"
       /\ actions[j].confidence < confidenceThreshold(anConfig)

\* C8: the emitted segments are in strictly ascending start order and do not
\* overlap: each segment ends at or before the start of the next one.
C8_SegmentsAscendingDisjoint ==
  \A i \in DOMAIN plan :
    LET segs == plan[i].segments IN
      \A k \in 1..(Len(segs) - 1) :
        /\ segs[k].start < segs[k + 1].start
        /\ segs[k].end <= segs[k + 1].start

\* Three segments were emitted from a map whose entries were inserted in
\* descending key order.
C8_Witness ==
  /\ Len(plan) = 1 /\ Len(plan[1].segments) = 3
  /\ Len(actions) = 3
  /\ actions[1].key > actions[2].key /\ actions[2].key > actions[3].key

\* C9: the segment of an honoured entry with timestamp t whose next timestamp
\* is u trims the source to exactly [t, u) seconds, and the last entry's
\* segment is open-ended (so the map {0: keep, 30: speed_up, 60: remove},
\* all honoured, gives a pass-through [0,30) and a 2x [30,60)). A segment's
\* bounds in seconds are start/den and end/den.
C9_TrimIsKeyInterval ==
  \A i \in DOMAIN plan :
    \A k \in DOMAIN plan[i].segments :
      LET seg == plan[i].segments[k] IN
        /\ seg.start = seg.key * seg.den
        /\ seg.end = IF seg.next = Infinity THEN Infinity
                     ELSE seg.next * seg.den

----------------------------------------------------------------------------
(* VideoProcessor.processVideo: one job, from the init event to complete.  *)
(* Each action is one callback of the event loop: what runs from one       *)
(* await's continuation to the next await.                                  *)

\* the sampling intervals a job runs with (seconds between captures)
FrameIntervals == {1, 2}

\* the answers of the classification service to the calls of a job: the call
\* throws, the answer has no tool call, or it is a decision (each action at
\* confidence 1.0, and one decision below every threshold but 0)
JobResponses ==
  {r \in ServiceResponses :
     \/ r.kind \in {"throws", "noToolCall"}
     \/ r.kind = "ok" /\ r.confidence = 100 /\ r.action \in Actions
     \/ r.kind = "ok" /\ r.confidence = 50 /\ r.action = "speed_up"}

\* what processVideo reads and never writes
jobFixed == <<schedVars, ctor, anConfig, anPc, thrown, errorListeners, anLast,
              startTime, endTime, planPc, pathVars, cliVars, fleetVars,
              runVars>>

\* the key of actions.set(frameNumber * this.config.frameInterval, analysis)
frameKey(frameNumber, interval) == frameNumber * interval

batchOfInclusive(i, list) ==
  {j \in DOMAIN list : i <= j /\ j <= i + parallelFrames}

\* frames.slice(i, i + this.config.parallelFrames), as indices of frames
batchOf(i, list) ==
  {j \in DOMAIN list : i <= j /\ j < i + parallelFrames}

applyStepEmitsLate(acts, evs) ==
  LET built == applyActions(acts, anConfig, startTime, endTime) IN
    [plan |-> <<built>>,
     events |-> evs \o built.events
                    \o <<ProcessingEvent("applying_modifications", "start")>>]

\* this.emit("processing", {stage: "applying_modifications", ...}) and
\* await this.applyActions(...) up to command.run()
applyStep(acts, evs) ==
  LET built == applyActions(acts, anConfig, startTime, endTime) IN
    [plan |-> <<built>>,
     events |-> evs \o <<ProcessingEvent("applying_modifications", "start")>>
                    \o built.events]

progressEventBeforeIncrement(processed, total) ==
  [ProcessingEvent("analyzing_frames", "progress")
     EXCEPT !.current = processed, !.total = total]

\* processedFrames += 1, then the analyzing_frames event with
\* progress: {current: processedFrames, total: frames.length, percentage}
progressEvent(processed, total) ==
  [ProcessingEvent("analyzing_frames", "progress")
     EXCEPT !.current = processed + 1, !.total = total]

\* const progress = (processedFrames / frames.length) * 100
percentage(event) == (event.current * 100) \div event.total

\* the configs a job runs with: no analyzer, the default threshold, and the
\* explicit thresholds other than the default's value
JobConfigs ==
  {c \in ValidConfigs :
     c.hasThreshold => c.confidenceThreshold # DefaultConfidenceThreshold}

JobInit ==
  /\ SchedIdle
  /\ PathsIdle
  /\ CliIdle
  /\ FleetIdle
  /\ RunsIdle
  /\ ctor = "VideoProcessor"
  /\ anConfig \in JobConfigs
  /\ anPc = "constructed"
  /\ thrown = NothingThrown
  /\ errorListeners \in SUBSET {"processor"}
  /\ anCalls = 0
  /\ anLast = <<>>
  /\ actions = <<>>
  /\ startTime = <<>>
  /\ endTime = <<>>
  /\ planPc = "idle"
  /\ plan = <<>>
  /\ jobPc = "start"
  /\ frameInterval \in FrameIntervals
  /\ parallelFrames \in 1..MaxParallel
  \* frame files an earlier run of the same video name left behind
  /\ tempFrames \in {1..n : n \in 0..MaxFrames}
  /\ frames = <<>>
  /\ batchStart = 0
  /\ frameState = <<>>
  /\ processedFrames = 0
  /\ events = <<>>
  /\ errorEvents = <<>>
  /\ failedFrames = {}
  /\ extractCalls = 0

\* processVideo up to await fs.ensureDir(tempFramesDir)
startProcessVideo ==
  /\ jobPc = "start"
  /\ events' = events \o <<ProcessingEvent("init", ""),
                           ProcessingEvent("creating_directories", "")>>
  /\ jobPc' = "ensureDir"
  /\ UNCHANGED <<frameInterval, parallelFrames, tempFrames, frames, batchStart,
                 frameState, processedFrames, errorEvents, failedFrames,
                 extractCalls, actions, plan, anCalls>>
  /\ UNCHANGED jobFixed

\* fs.ensureDir rejects: processVideo rejects
ensureDirFails ==
  /\ jobPc = "ensureDir"
  /\ jobPc' = "rejected"
  /\ UNCHANGED <<frameInterval, parallelFrames, tempFrames, frames, batchStart,
                 frameState, processedFrames, events, errorEvents,
                 failedFrames, extractCalls, actions, plan, anCalls>>
  /\ UNCHANGED jobFixed

hasAnalyzerAlways(config) == TRUE

\* if (this.analyzer): the constructor builds one when config.analyzerConfig
\* is given
hasAnalyzer(config) == config.given

\* Both directories exist. With an analyzer: the extracting_frames event and
\* the extraction run; without one: straight to applyActions with an empty map.
ensureDirDone ==
  /\ jobPc = "ensureDir"
  /\ IF hasAnalyzer(anConfig)
       THEN /\ events' = Append(events, ProcessingEvent("extracting_frames", ""))
            /\ extractCalls' = extractCalls + 1
            /\ jobPc' = "extracting"
            /\ UNCHANGED plan
       ELSE /\ events' = applyStep(actions, events).events
            /\ plan' = applyStep(actions, events).plan
            /\ jobPc' = "encoding"
            /\ UNCHANGED extractCalls
  /\ UNCHANGED <<frameInterval, parallelFrames, tempFrames, frames, batchStart,
                 frameState, processedFrames, errorEvents, failedFrames,
                 actions, anCalls>>
  /\ UNCHANGED jobFixed

\* extractFrames .on("end"): the run wrote frame-1.jpg .. frame-K.jpg over
\* what was there; then the analyzing_frames event and await fs.readdir.
extractEnds(K) ==
  /\ jobPc = "extracting"
  /\ tempFrames' = tempFrames \cup (1..K)
  /\ events' = Append(events, ProcessingEvent("analyzing_frames", "start"))
  /\ jobPc' = "readdir"
  /\ UNCHANGED <<frameInterval, parallelFrames, frames, batchStart, frameState,
                 processedFrames, errorEvents, failedFrames, extractCalls,
                 actions, plan, anCalls>>
  /\ UNCHANGED jobFixed

\* extractFrames .on("error"): this.emit("error", ...), then reject(err). With
\* no "error" listener the emit throws inside the transcoder's callback and
\* reject is never reached.
extractFails ==
  /\ jobPc = "extracting"
  /\ IF "processor" \in errorListeners
       THEN /\ errorEvents' = Append(errorEvents, 0)
            /\ jobPc' = "rejected"
       ELSE /\ jobPc' = "crashed"
            /\ UNCHANGED errorEvents
  /\ UNCHANGED <<frameInterval, parallelFrames, tempFrames, frames, batchStart,
                 frameState, processedFrames, events, failedFrames,
                 extractCalls, actions, plan, anCalls>>
  /\ UNCHANGED jobFixed

readdirDoneNoAwait ==
  /\ jobPc = "readdir"
  /\ LET list == SortAsc(tempFrames) IN
       /\ frames' = list
       /\ batchStart' = IF Len(list) > 0 THEN 1 ELSE batchStart
       /\ frameState' = [j \in DOMAIN list |->
                           IF j \in batchOf(1, list) THEN "reading"
                           ELSE "waiting"]
       /\ events' = applyStep(actions, events).events
       /\ plan' = applyStep(actions, events).plan
       /\ jobPc' = "encoding"
  /\ UNCHANGED <<frameInterval, parallelFrames, tempFrames, processedFrames,
                 errorEvents, failedFrames, extractCalls, actions, anCalls>>
  /\ UNCHANGED jobFixed

\* fs.readdir resolves: the first batch's callbacks run up to their readFile,
\* or, with no frame file, the loop is skipped and applyActions runs.
readdirDone ==
  /\ jobPc = "readdir"
  /\ LET list == SortAsc(tempFrames) IN
       /\ frames' = list
       /\ IF Len(list) > 0
            THEN /\ batchStart' = 1
                 /\ frameState' = [j \in DOMAIN list |->
                                     IF j \in batchOf(1, list) THEN "reading"
                                     ELSE "waiting"]
                 /\ jobPc' = "analyzing"
                 /\ UNCHANGED <<events, plan>>
            ELSE /\ events' = applyStep(actions, events).events
                 /\ plan' = applyStep(actions, events).plan
                 /\ jobPc' = "encoding"
                 /\ UNCHANGED <<batchStart, frameState>>
  /\ UNCHANGED <<frameInterval, parallelFrames, tempFrames, processedFrames,
                 errorEvents, failedFrames, extractCalls, actions, anCalls>>
  /\ UNCHANGED jobFixed

\* fs.readFile of frames[j] resolves: this.analyzer.analyzeFrame(frameData,
\* frameNumber) makes its classification call.
readFileDone(j) ==
  /\ j \in DOMAIN frameState
  /\ frameState[j] = "reading"
  /\ frameState' = [frameState EXCEPT ![j] = "classifying"]
  /\ anCalls' = anCalls + 1
  /\ UNCHANGED <<jobPc, frameInterval, parallelFrames, tempFrames, frames,
                 batchStart, processedFrames, events, errorEvents,
                 failedFrames, extractCalls, actions, plan>>
  /\ UNCHANGED jobFixed

\* The classification call of frames[j] settles and analyzeFrame with it.
\* Resolved: actions.set, processedFrames += 1, the progress event; and when
\* this was the batch's last promise, Promise.all resolves: the next batch
\* starts, or analyzeFrames returns and processVideo goes on to applyActions.
\* Rejected: Promise.all rejects and processVideo with it, while the other
\* callbacks of the batch go on.
classifyDone(j, response) ==
  /\ j \in DOMAIN frameState
  /\ frameState[j] = "classifying"
  /\ LET frameNumber == frames[j]
         result == analyzeFrame(response, frameNumber,
                                emitErrorThrows(ctor, errorListeners))
     IN
       /\ failedFrames' = IF response \in FailedResponses
                            THEN failedFrames \cup {frameNumber}
                            ELSE failedFrames
       /\ errorEvents' = IF result.event = "error" /\ result.settled = "resolved"
                           THEN Append(errorEvents, frameNumber)
                           ELSE errorEvents
       /\ IF result.settled = "rejected"
            THEN /\ frameState' = [frameState EXCEPT ![j] = "failed"]
                 /\ jobPc' = IF jobPc = "analyzing" THEN "rejected" ELSE jobPc
                 /\ UNCHANGED <<actions, processedFrames, events, plan,
                                batchStart>>
            ELSE
              LET acts == MapSet(actions,
                            [key |-> frameKey(frameNumber, frameInterval),
                             action |-> result.action,
                             confidence |-> result.confidence,
                             frame |-> result.frame])
                  evs == Append(events,
                           progressEvent(processedFrames, Len(frames)))
                  done == [frameState EXCEPT ![j] = "done"]
                  batchDone ==
                    /\ jobPc = "analyzing"
                    /\ \A b \in batchOf(batchStart, frames) : done[b] = "done"
                  next == batchStart + parallelFrames
              IN
                /\ actions' = acts
                /\ processedFrames' = processedFrames + 1
                /\ IF ~batchDone
                     THEN /\ frameState' = done
                          /\ events' = evs
                          /\ UNCHANGED <<jobPc, plan, batchStart>>
                   ELSE IF next <= Len(frames)
                     THEN /\ frameState' =
                               [b \in DOMAIN done |->
                                  IF b \in batchOf(next, frames) THEN "reading"
                                  ELSE done[b]]
                          /\ batchStart' = next
                          /\ events' = evs
                          /\ UNCHANGED <<jobPc, plan>>
                   ELSE /\ frameState' = done
                        /\ events' = applyStep(acts, evs).events
                        /\ plan' = applyStep(acts, evs).plan
                        /\ jobPc' = "encoding"
                        /\ UNCHANGED batchStart
  /\ UNCHANGED <<frameInterval, parallelFrames, tempFrames, frames,
                 extractCalls, anCalls>>
  /\ UNCHANGED jobFixed

\* applyActions .on("end"): the cleanup event and await fs.remove(tempFramesDir)
encodeEnds ==
  /\ jobPc = "encoding"
  /\ events' = Append(events, ProcessingEvent("cleanup", ""))
  /\ jobPc' = "removing"
  /\ UNCHANGED <<frameInterval, parallelFrames, tempFrames, frames, batchStart,
                 frameState, processedFrames, errorEvents, failedFrames,
                 extractCalls, actions, plan, anCalls>>
  /\ UNCHANGED jobFixed

\* applyActions .on("progress"), for a progress with a percent: the
\* compiling_video event with the progress data. events keeps a run of encode
\* progress events as one event.
encodeProgress ==
  /\ jobPc = "encoding"
  /\ events[Len(events)] # ProcessingEvent("compiling_video", "progress")
  /\ events' = Append(events, ProcessingEvent("compiling_video", "progress"))
  /\ UNCHANGED <<jobPc, frameInterval, parallelFrames, tempFrames, frames,
                 batchStart, frameState, processedFrames, errorEvents,
                 failedFrames, extractCalls, actions, plan, anCalls>>
  /\ UNCHANGED jobFixed

\* applyActions .on("error", reject): processVideo rejects
encodeFails ==
  /\ jobPc = "encoding"
  /\ jobPc' = "rejected"
  /\ UNCHANGED <<frameInterval, parallelFrames, tempFrames, frames, batchStart,
                 frameState, processedFrames, events, errorEvents,
                 failedFrames, extractCalls, actions, plan, anCalls>>
  /\ UNCHANGED jobFixed

removeDoneLeavesFrames ==
  /\ jobPc = "removing"
  /\ events' = Append(events, ProcessingEvent("complete", ""))
  /\ jobPc' = "done"
  /\ UNCHANGED <<frameInterval, parallelFrames, tempFrames, frames, batchStart,
                 frameState, processedFrames, errorEvents, failedFrames,
                 extractCalls, actions, plan, anCalls>>
  /\ UNCHANGED jobFixed

\* fs.remove resolves: the complete event, return outputPath
removeDone ==
  /\ jobPc = "removing"
  /\ tempFrames' = {}
  /\ events' = Append(events, ProcessingEvent("complete", ""))
  /\ jobPc' = "done"
  /\ UNCHANGED <<frameInterval, parallelFrames, frames, batchStart, frameState,
                 processedFrames, errorEvents, failedFrames, extractCalls,
                 actions, plan, anCalls>>
  /\ UNCHANGED jobFixed

JobNext ==
  \/ startProcessVideo
  \/ ensureDirFails
  \/ ensureDirDone
  \/ \E K \in 0..MaxFrames : extractEnds(K)
  \/ extractFails
  \/ readdirDone
  \/ \E j \in 1..MaxFrames : readFileDone(j)
  \/ \E j \in 1..MaxFrames : \E response \in JobResponses :
       classifyDone(j, response)
  \/ encodeProgress
  \/ encodeEnds
  \/ encodeFails
  \/ removeDone

SpecJob == JobInit /\ [][JobNext]_vars

----------------------------------------------------------------------------
(* Claims about one job, checked under SpecJob *)

\* C5: a classification failure never by itself causes a drop or a speed
\* change: whenever the planner has run, for every valid threshold, every
\* frame whose classification call failed has a segment of its own, from its
\* timestamp to the next one, and that segment is a pass-through (copy).
C5_FailureIsPassThrough ==
  \A p \in DOMAIN plan :
    \A f \in failedFrames :
      \E k \in DOMAIN plan[p].segments :
        /\ plan[p].segments[k].key = frameKey(f, frameInterval)
        /\ plan[p].segments[k].filter = "copy"

\* The planner ran with threshold 1.0 after a classification call threw for
\* one frame and another frame was classified remove.
C5_Witness ==
  /\ Len(plan) = 1
  /\ confidenceThreshold(anConfig) = 100
  /\ errorEvents # <<>>
  /\ \E f \in failedFrames : \E i \in DOMAIN actions :
       actions[i].frame # f /\ actions[i].action = "remove"

\* C10: after the classification phase of a job with K frame files and
\* sampling interval s, the ActionMap's keys are pairwise distinct, strictly
\* increasing, and every key k satisfies 0 <= k < K * s.
C10_KeysInRange ==
  (anConfig.given /\ Len(plan) = 1) =>
    LET K == Len(frames)
        keys == frameNumbers(actions)
    IN
      /\ Len(keys) = Len(actions)
      /\ \A i \in 1..(Len(keys) - 1) : keys[i] < keys[i + 1]
      /\ \A i \in DOMAIN keys : 0 <= keys[i] /\ keys[i] < K * frameInterval

\* the classification calls of the job that are in flight, as indices of frames
CallsInFlight == {j \in DOMAIN frameState : frameState[j] = "classifying"}

\* the batch the j-th frame file belongs to (0 is the first)
batchIndex(j) == (j - 1) \div parallelFrames

\* C11: with batch size P = parallelFrames, at most P classification calls of
\* the job are in flight in every state, and no call of a later batch has been
\* started while a call of an earlier batch has not settled.
C11_BatchBarrier ==
  /\ Cardinality(CallsInFlight) <= parallelFrames
  /\ \A i, j \in DOMAIN frameState :
       (/\ batchIndex(i) < batchIndex(j)
        /\ frameState[j] \in {"classifying", "done", "failed"})
       => frameState[i] \in {"done", "failed"}

\* P calls are in flight at once while a frame of the next batch waits.
C11_Witness ==
  /\ parallelFrames = 2
  /\ Len(frames) = 3
  /\ CallsInFlight = {1, 2}
  /\ frameState[3] = "waiting"

\* the place of a stage in the order init, creating_directories,
\* extracting_frames, analyzing_frames, applying_modifications,
\* compiling_video, cleanup, complete
stageRank(stage) ==
  CASE stage = "init" -> 1
    [] stage = "creating_directories" -> 2
    [] stage = "extracting_frames" -> 3
    [] stage = "analyzing_frames" -> 4
    [] stage = "applying_modifications" -> 5
    [] stage = "compiling_video" -> 6
    [] stage = "cleanup" -> 7
    [] stage = "complete" -> 8

----------------------------------------------------------------------------
(* More claims about the segment planner, checked under SpecPlan *)

\* the positions of a filter string where the label [v<k>] is defined: a
\* chain ends in it
labelDefinitions(filter, k) ==
  {i \in DOMAIN filter : filter[i] = Tok("label", k, 0)}

\* the labels a filter string references as inputs, in order
labelReferences(filter) ==
  LET at == SortAsc({i \in DOMAIN filter : filter[i].t = "ref"}) IN
    [i \in DOMAIN at |-> filter[at[i]].a]

\* C13: when the planner emits n >= 1 segments, the filter graph handed to
\* the transcoder realizes that list: the concat instruction references
\* [v0]..[v(n-1)] in order, and the graph defines each of those labels once,
\* by a chain that holds the segment's trim and its speed filter.
C13_GraphRealizesSegments ==
  \A p \in DOMAIN plan :
    LET segs == plan[p].segments
        graph == plan[p].command.complexFilter
    IN
      Len(segs) >= 1 =>
        /\ labelReferences(graph) = [k \in 1..Len(segs) |-> k - 1]
        /\ \A k \in 1..Len(segs) :
             /\ Cardinality(labelDefinitions(graph, k - 1)) = 1
             /\ \E i, j \in DOMAIN graph :
                  /\ graph[i] = Tok("trim", segs[k].start, segs[k].end)
                  /\ graph[j] = Tok(segs[k].filter, 0, 0)

\* the segments of a plan that come from the entry with this key
segmentsOf(built, key) ==
  {k \in DOMAIN built.segments : built.segments[k].key = key}

\* the low-confidence notices of a plan that name this entry
skipNoticesOf(built, entry) ==
  {i \in DOMAIN built.events :
     /\ built.events[i].stage = "applying_modifications"
     /\ built.events[i].kind = "skip"
     /\ built.events[i].frame = entry.key}

\* C14: an entry whose action is remove never yields a segment, whatever its
\* confidence and whatever the threshold.
C14_RemoveYieldsNoSegment ==
  \A p \in DOMAIN plan :
    \A e \in Range(actions) :
      e.action = "remove" => segmentsOf(plan[p], e.key) = {}

\* The planner ran with threshold 0 on a map with a remove entry of
\* confidence 1.0 next to an entry that got its segment.
C14_Witness ==
  /\ Len(plan) = 1
  /\ confidenceThreshold(anConfig) = 0
  /\ Len(plan[1].segments) >= 1
  /\ \E e \in Range(actions) : e.action = "remove" /\ e.confidence = 100

\* C15 as stated: every entry with confidence < threshold, of any action,
\* yields no segment and exactly one low-confidence notice naming its frame,
\* action and confidence; an entry at or above the threshold gets no notice.
C15_LowConfidenceAnyAction ==
  \A p \in DOMAIN plan :
    \A e \in Range(actions) :
      IF e.confidence < confidenceThreshold(anConfig)
        THEN /\ segmentsOf(plan[p], e.key) = {}
             /\ Cardinality(skipNoticesOf(plan[p], e)) = 1
        ELSE skipNoticesOf(plan[p], e) = {}

\* C15, amended: every entry whose action is not remove and whose confidence
\* is below the threshold yields no segment and exactly one low-confidence
\* notice, which names its frame, action and confidence; a remove entry
\* yields no notice, whatever its confidence; an entry at or above the
\* threshold gets no notice, and its segment unless it is remove.
C15_LowConfidenceSkipped ==
  \A p \in DOMAIN plan :
    \A e \in Range(actions) :
      LET low == e.confidence < confidenceThreshold(anConfig)
          notices == skipNoticesOf(plan[p], e)
      IN
        /\ (e.action # "remove" /\ low) =>
             /\ segmentsOf(plan[p], e.key) = {}
             /\ Cardinality(notices) = 1
             /\ \A i \in notices :
                  /\ plan[p].events[i].action = e.action
                  /\ plan[p].events[i].confidence = e.confidence
        /\ e.action = "remove" => notices = {}
        /\ ~low => notices = {}
        /\ (e.action # "remove" /\ ~low) =>
             Cardinality(segmentsOf(plan[p], e.key)) = 1

\* The planner ran on a map with a keep entry one hundredth below the
\* threshold, a speed_up entry exactly at it and a remove entry below it.
C15_Witness ==
  /\ Len(plan) = 1
  /\ confidenceThreshold(anConfig) = 70
  /\ \E a, b, c \in Range(actions) :
       /\ a.action = "keep" /\ a.confidence = 69
       /\ b.action = "speed_up" /\ b.confidence = 70
       /\ c.action = "remove" /\ c.confidence = 69

RECURSIVE lengthAfter(_)
\* the length of filterComplex after k rounds have appended: each round adds
\* [0:v], its trim, its speed filter, the string as it was, and its label
lengthAfter(k) ==
  IF k = 0 THEN Len(ReframeChain) ELSE 2 * lengthAfter(k - 1) + 4

\* C16: every honoured entry (action not remove, confidence >= threshold) has
\* one segment, and the filter written after that segment's own trim is the
\* 2x speed-up (setpts=0.5*PTS) if and only if the action is speed_up, and
\* copy if the action is keep.
C16_TransformFollowsAction ==
  \A p \in DOMAIN plan :
    \A e \in Range(actions) :
      (e.action # "remove" /\ e.confidence >= confidenceThreshold(anConfig)) =>
        /\ Cardinality(segmentsOf(plan[p], e.key)) = 1
        /\ \A k \in segmentsOf(plan[p], e.key) :
             LET own == lengthAfter(k - 1)
                 text == plan[p].filterComplex
                 seg == plan[p].segments[k]
             IN
               /\ text[own + 1] = Tok("[0:v]", 0, 0)
               /\ text[own + 2] = Tok("trim", seg.start, seg.end)
               /\ text[own + 3] = Tok(seg.filter, 0, 0)
               /\ (seg.filter = "setpts=0.5*PTS") <=> (e.action = "speed_up")
               /\ e.action = "keep" => seg.filter = "copy"

\* The planner honoured a speed_up entry and, after it, a keep entry.
C16_Witness ==
  /\ Len(plan) = 1
  /\ Len(plan[1].segments) >= 2
  /\ plan[1].segments[1].filter = "setpts=0.5*PTS"
  /\ plan[1].segments[2].filter = "copy"

----------------------------------------------------------------------------
(* processVideo: the trim window and the names it derives from the video   *)
(* path (the temp frames directory, the output path).                       *)

\* A video file name: a stem ("" for none), a time span HH:MM:SS-HH:MM:SS
\* (<<>> for none, else the start and the end as their three numbers) and an
\* extension; stem and span are joined by "-" when both are there.
Stems == {"", "clip"}

Spans == {<<>>, <<<<0, 0, 30>>, <<0, 1, 30>>>>, <<<<1, 30, 0>>, <<1, 35, 0>>>>}

\* [".mp4", ".avi", ".mov"]: the extensions the CLI takes as videos
VideoExtensions == {".mp4", ".avi", ".mov"}

FileNames ==
  {f \in [stem : Stems, span : Spans, ext : VideoExtensions] :
     f.stem # "" \/ f.span # <<>>}

DirNames == {"videos", "clip"}

ConfigWindows ==
  [startTime : {<<>>, <<0, 30>>}, endTime : {<<>>, <<1, 30>>}]

\* path.basename(videoPath)
\*   .match(/((\d{2}:\d{2}:\d{2})-(\d{2}:\d{2}:\d{2}))\.mp4/)
spanMatch(f) == f.span # <<>> /\ f.ext = ".mp4"

timeInEffectConfigFirst(matched, configured) ==
  IF configured # <<>> THEN configured ELSE matched

\* startEndMatch?.[2] || this.config.startTime
timeInEffect(matched, configured) ==
  IF matched # <<>> THEN matched ELSE configured

\* path.basename(videoPath, path.extname(videoPath))
\*   .replace(startEndMatch?.[1] || "", "").replace(/^-|-$/g, "")
videoFilename(f) ==
  IF spanMatch(f) THEN [stem |-> f.stem, span |-> <<>>]
  ELSE [stem |-> f.stem, span |-> f.span]

\* videoFilename || path.basename(path.dirname(videoPath))
videoName(f, dir) ==
  IF videoFilename(f) = [stem |-> "", span |-> <<>>]
    THEN [stem |-> dir, span |-> <<>>]
    ELSE videoFilename(f)

\* processVideo up to its first event: the window in effect, tempFramesDir
\* and outputPath
deriveJob(f, dir, window) ==
  [startTime |-> timeInEffect(IF spanMatch(f) THEN f.span[1] ELSE <<>>,
                              window.startTime),
   endTime |-> timeInEffect(IF spanMatch(f) THEN f.span[2] ELSE <<>>,
                            window.endTime),
   videoName |-> videoName(f, dir),
   tempFramesDir |-> [dir |-> "tempDir", name |-> videoName(f, dir)],
   outputPath |-> [dir |-> "outputDir", name |-> videoName(f, dir),
                   ext |-> ".mp4"]]

PathsInit ==
  /\ SchedIdle
  /\ AnalyzerIdle
  /\ PlanIdle
  /\ JobIdle
  /\ CliIdle
  /\ FleetIdle
  /\ RunsIdle
  /\ batchDir \in DirNames
  /\ batchFiles \in {s \in SeqsUpTo(FileNames, MaxBatch) :
                       Len(s) >= 1 /\ NoDup(s)}
  /\ configWindow \in ConfigWindows
  /\ jobPaths = <<>>

\* processVideo(path.join(resolvedInput, video)) for the next video
processVideoPaths ==
  /\ Len(jobPaths) < Len(batchFiles)
  /\ jobPaths' = Append(jobPaths,
                   deriveJob(batchFiles[Len(jobPaths) + 1], batchDir,
                             configWindow))
  /\ UNCHANGED <<batchDir, batchFiles, configWindow>>
  /\ UNCHANGED notPaths

PathsNext ==
  \/ processVideoPaths

SpecPaths == PathsInit /\ [][PathsNext]_vars

----------------------------------------------------------------------------
(* Claims about the derived names, checked under SpecPaths *)

\* the command applyActions builds for a job's window (with no analyzer)
windowCommand(job) ==
  applyActions(<<>>, NoConfig, job.startTime, job.endTime).command

\* C18 as stated: for a file named HH:MM:SS-HH:MM:SS.<ext>, for every
\* extension of the allow-list, the start and end times of the name are the
\* trim window, also when a window is configured, and the span is not in the
\* derived base name.
C18_FilenameWindowAnyExtension ==
  \A i \in DOMAIN jobPaths :
    LET f == batchFiles[i] IN
      (f.stem = "" /\ f.span # <<>>) =>
        /\ jobPaths[i].startTime = f.span[1]
        /\ jobPaths[i].endTime = f.span[2]
        /\ windowCommand(jobPaths[i]).setStartTime = f.span[1]
        /\ windowCommand(jobPaths[i]).setDuration =
             timeToSeconds(f.span[2]) - timeToSeconds(f.span[1])
        /\ jobPaths[i].videoName.span = <<>>

\* C18, amended: the same for a file named HH:MM:SS-HH:MM:SS.mp4 only.
C18_FilenameWindowMp4 ==
  \A i \in DOMAIN jobPaths :
    LET f == batchFiles[i] IN
      (f.stem = "" /\ f.span # <<>> /\ f.ext = ".mp4") =>
        /\ jobPaths[i].startTime = f.span[1]
        /\ jobPaths[i].endTime = f.span[2]
        /\ windowCommand(jobPaths[i]).setStartTime = f.span[1]
        /\ windowCommand(jobPaths[i]).hasDuration
        /\ windowCommand(jobPaths[i]).setDuration =
             timeToSeconds(f.span[2]) - timeToSeconds(f.span[1])
        /\ jobPaths[i].videoName.span = <<>>

\* processVideo ran for 00:00:30-00:01:30.mp4 with a window configured.
C18_Witness ==
  /\ configWindow # NoWindow
  /\ \E i \in DOMAIN jobPaths :
       batchFiles[i] = [stem |-> "", span |-> <<<<0, 0, 30>>, <<0, 1, 30>>>>,
                        ext |-> ".mp4"]

\* C19: for any two distinct input videos of one batch, the temp directories
\* and the output paths processVideo derives are distinct.
C19_ExclusivePaths ==
  \A i, j \in DOMAIN jobPaths :
    i # j =>
      /\ jobPaths[i].tempFramesDir # jobPaths[j].tempFramesDir
      /\ jobPaths[i].outputPath # jobPaths[j].outputPath

----------------------------------------------------------------------------
(* The CLI run: resolveVideoFiles, the program's action, the scheduler it   *)
(* starts, and the exit of the process.                                     *)

notCli == <<anVars, planVars, jobVars, pathVars, fleetVars, runVars>>

\* fs.readdir(resolvedInput): the entries of the input directory
DirEntries ==
  {[stem |-> "a", ext |-> ".mp4"], [stem |-> "b", ext |-> ".MOV"],
   [stem |-> "notes", ext |-> ".txt"]}

\* the input path itself, when it is a file
InputFile == [stem |-> "input", ext |-> ".mp4"]

\* String.prototype.toLowerCase on an extension
toLowerCase(ext) ==
  CASE ext = ".MP4" -> ".mp4"
    [] ext = ".AVI" -> ".avi"
    [] ext = ".MOV" -> ".mov"
    [] OTHER -> ext

isVideoFileAny(file) == TRUE

\* [".mp4", ".avi", ".mov"].includes(path.extname(file).toLowerCase())
isVideoFile(file) == toLowerCase(file.ext) \in VideoExtensions

\* dirContents.filter(...)
RECURSIVE filterVideos(_)
filterVideos(s) ==
  IF s = <<>> THEN <<>>
  ELSE IF isVideoFile(Head(s)) THEN <<Head(s)>> \o filterVideos(Tail(s))
  ELSE filterVideos(Tail(s))

\* logger.error / logger.info, the last line written before an exit
LogLine(level, text) == [level |-> level, text |-> text]

CliInit ==
  /\ AnalyzerIdle
  /\ PlanIdle
  /\ JobIdle
  /\ PathsIdle
  /\ FleetIdle
  /\ RunsIdle
  /\ cliInput \in {"missing", "file", "directory"}
  /\ dirContents \in {s \in SeqsUpTo(DirEntries, MaxBatch) :
                        NoDup(s) /\ (cliInput # "directory" => s = <<>>)}
  /\ cliPc = "start"
  /\ exitCode = -1
  /\ cliLog = NothingLogged
  /\ videoFiles = <<>>
  /\ jobs \in 1..MaxJobs
  /\ cpus \in 1..MaxCpus
  /\ queue = <<>>
  /\ inProgress = {}
  /\ started = <<>>
  /\ call = <<>>
  /\ reaction = 0
  /\ handled = {}
  /\ errorLog = <<>>
  /\ schedPc = "idle"

\* resolveVideoFiles throws for a missing path; program.parseAsync().catch
\* logs the message and calls process.exit(1).
resolveThrows ==
  /\ cliPc = "start"
  /\ cliInput = "missing"
  /\ cliLog' = LogLine("error", "Input path does not exist")
  /\ exitCode' = 1
  /\ cliPc' = "exited"
  /\ UNCHANGED <<cliInput, dirContents>>
  /\ UNCHANGED schedVars
  /\ UNCHANGED notCli

\* resolveVideoFiles returns: the directory's files of the allow-list, or
\* the input itself when it is not a directory.
resolveVideoFiles ==
  /\ cliPc = "start"
  /\ cliInput # "missing"
  /\ videoFiles' = IF cliInput = "directory" THEN filterVideos(dirContents)
                   ELSE <<InputFile>>
  /\ cliPc' = "resolved"
  /\ UNCHANGED <<cliInput, dirContents, exitCode, cliLog>>
  /\ UNCHANGED <<jobs, cpus, queue, inProgress, started, call, reaction,
                 handled, errorLog, schedPc>>
  /\ UNCHANGED notCli

\* if (videos.length === 0) { logger.info("No videos found."); process.exit(0); }
noVideosFound ==
  /\ cliPc = "resolved"
  /\ Len(videoFiles) = 0
  /\ cliLog' = LogLine("info", "No videos found.")
  /\ exitCode' = 0
  /\ cliPc' = "exited"
  /\ UNCHANGED <<cliInput, dirContents>>
  /\ UNCHANGED schedVars
  /\ UNCHANGED notCli

\* parseAnalyzerConfig, ensureFFmpeg or new VideoProcessor throws: caught by
\* program.parseAsync().catch, process.exit(1).
setupThrows ==
  /\ cliPc = "resolved"
  /\ Len(videoFiles) > 0
  /\ cliLog' = LogLine("error", "setup failed")
  /\ exitCode' = 1
  /\ cliPc' = "exited"
  /\ UNCHANGED <<cliInput, dirContents>>
  /\ UNCHANGED schedVars
  /\ UNCHANGED notCli

\* await processVideosInParallel(videos, resolvedInput, videoProcessor, jobs)
startScheduler ==
  /\ cliPc = "resolved"
  /\ Len(videoFiles) > 0
  /\ queue' = videoFiles
  /\ schedPc' = "while"
  /\ cliPc' = "scheduling"
  /\ UNCHANGED <<cliInput, dirContents, exitCode, cliLog>>
  /\ UNCHANGED <<videoFiles, jobs, cpus, inProgress, started, call, reaction,
                 handled, errorLog>>
  /\ UNCHANGED notCli

\* processVideosInParallel returns, the action resolves and the process
\* ends with nothing left to run.
actionReturns ==
  /\ cliPc = "scheduling"
  /\ schedPc = "returned"
  /\ reaction = 0
  /\ exitCode' = 0
  /\ cliPc' = "exited"
  /\ UNCHANGED <<cliInput, dirContents, cliLog>>
  /\ UNCHANGED schedVars
  /\ UNCHANGED notCli

CliNext ==
  \/ resolveThrows
  \/ resolveVideoFiles
  \/ noVideosFound
  \/ setupThrows
  \/ startScheduler
  \/ actionReturns
  \/ WhileTest
  \/ Admit
  \/ Sleep
  \/ TimerFires
  \/ \E i \in 1..MaxVideos : \E outcome \in {"fulfilled", "rejected"} :
       Settle(i, outcome)
  \/ ThenHandler
  \/ CatchHandler

SpecCli == CliInit /\ [][CliNext]_vars

----------------------------------------------------------------------------
(* Claims about the run, checked under SpecCli *)

\* the input is a directory none of whose entries has an extension of the
\* allow-list
noMatchingFiles ==
  /\ cliInput = "directory"
  /\ \A k \in DOMAIN dirContents :
       toLowerCase(dirContents[k].ext) \notin VideoExtensions

\* C20 as stated: a run whose input path is missing, whose input is not a
\* directory, or whose input holds zero matching video files ends with an
\* error and a non-zero exit code, and no video is processed.
C20_InputErrorsAllFatal ==
  (cliInput \in {"missing", "file"} \/ noMatchingFiles) =>
    /\ started = <<>>
    /\ cliPc = "exited" => (exitCode # 0 /\ cliLog.level = "error")

\* C20, amended: a missing input path ends the run with an error and exit
\* code 1; a directory with zero matching files ends it with the line
\* "No videos found." and exit code 0; in both no video is processed. An
\* input that is not a directory is the one video of the run.
C20_InputOutcomes ==
  /\ cliInput = "missing" =>
       /\ started = <<>>
       /\ videoFiles = <<>>
       /\ cliPc = "exited" =>
            (exitCode = 1 /\
             cliLog = LogLine("error", "Input path does not exist"))
  /\ noMatchingFiles =>
       /\ started = <<>>
       /\ videoFiles = <<>>
       /\ cliPc = "exited" =>
            (exitCode = 0 /\ cliLog = LogLine("info", "No videos found."))
  /\ cliInput = "file" =>
       /\ cliPc # "start" => videoFiles = <<InputFile>>
       /\ cliLog # LogLine("error", "Input path does not exist")
       /\ cliLog # LogLine("info", "No videos found.")
       /\ \A k \in DOMAIN started : started[k] = InputFile

\* A run over a directory holding notes.txt only has ended.
C20_Witness ==
  /\ noMatchingFiles
  /\ Len(dirContents) > 0
  /\ cliPc = "exited"

----------------------------------------------------------------------------
(* The path the scheduler hands to processVideo *)

\* process.cwd(), as a path component
Cwd == [stem |-> "cwd", ext |-> ""]

\* the input directory, as a path component
InputDir == [stem |-> "videos", ext |-> ""]

\* const resolvedInput = path.resolve(process.cwd(), input), as the sequence
\* of its components
resolvedInput ==
  IF cliInput = "file" THEN <<Cwd, InputFile>> ELSE <<Cwd, InputDir>>

\* The components of an element of videoFiles: a directory entry is a bare
\* file name, the single file is resolvedInput itself
\* (videoFiles.push(resolvedInput)).
videoComponents(video) ==
  IF cliInput = "file" THEN resolvedInput ELSE <<video>>

\* path.join(a, b): the components of a followed by those of b; a later
\* absolute segment does not restart the path (unlike path.resolve).
pathJoin(a, b) == a \o b

\* const videoPath = path.join(resolvedInput, video)
videoPath(video) == pathJoin(resolvedInput, videoComponents(video))

\* C21: when the input is the path of a single video file, exactly one job
\* is run and the path passed to processVideo is that resolved file path.
C21_SingleFilePath ==
  cliInput = "file" =>
    /\ Len(started) <= 1
    /\ cliPc = "exited" /\ exitCode = 0 => Len(started) = 1
    /\ \A k \in DOMAIN started : videoPath(started[k]) = resolvedInput

----------------------------------------------------------------------------
(* More claims about the job scheduler, checked under SpecSched *)

\* C22: for every requested job count, the concurrency bound the scheduler
\* uses is an integer N with 1 <= N <= the available core count.
C22_BoundInRange == maxConcurrent(jobs, cpus) \in 1..cpus

----------------------------------------------------------------------------
(* More claims about one job, checked under SpecJob *)

\* the analyzing_frames progress events, in emission order
progressEvents ==
  SelectSeq(events, LAMBDA e : e.stage = "analyzing_frames" /\ e.kind = "progress")

\* the frames whose callback has run to its end
completedFrames == {j \in DOMAIN frameState : frameState[j] = "done"}

\* C23: in the classification phase of a job with T frames there is exactly
\* one progress event per completed frame; in every interleaving of the
\* completions the processed counts are 1, 2, ... in emission order, each
\* event carries total = T, and once all T frames have completed (the phase
\* is over) the counts are 1..T and the last event has percentage 100.
C23_ProgressCounts ==
  /\ Len(progressEvents) = Cardinality(completedFrames)
  /\ \A k \in DOMAIN progressEvents :
       /\ progressEvents[k].current = k
       /\ progressEvents[k].total = Len(frames)
  /\ (jobPc \in {"encoding", "removing", "done"} /\ Len(frames) > 0) =>
       /\ Len(progressEvents) = Len(frames)
       /\ percentage(progressEvents[Len(progressEvents)]) = 100

\* The second frame of a batch has completed before the first.
C23_Witness ==
  /\ Len(frames) >= 2
  /\ frameState[2] = "done"
  /\ frameState[1] = "classifying"
  /\ Len(progressEvents) = 1

\* the step in which frame extraction or the encode fails
failureStep ==
  /\ jobPc \in {"extracting", "encoding"}
  /\ jobPc' \in {"rejected", "crashed"}

\* C24: if frame extraction or encoding fails, processVideo rejects with that
\* failure, neither the cleanup stage nor the complete stage is emitted, and
\* the job's temp directory is not removed: the temp files stay on disk.
C24_FailureLeavesTemp ==
  /\ [][failureStep => (jobPc' = "rejected" /\ tempFrames' = tempFrames)]_vars
  /\ [][(jobPc \in {"rejected", "crashed"}) => (tempFrames' = tempFrames)]_vars
  /\ [](jobPc \in {"rejected", "crashed"} =>
          \A k \in DOMAIN events : events[k].stage \notin {"cleanup", "complete"})

\* the events of one stage, in emission order
stageEvents(stage) == SelectSeq(events, LAMBDA e : e.stage = stage)

\* the calls of fs.remove(tempFramesDir): each follows its cleanup event in
\* the same synchronous stretch of processVideo
removeCalls == Len(stageEvents("cleanup"))

\* the step in which fs.remove resolves
removeStep == jobPc = "removing" /\ jobPc' = "done"

\* C25: on every successful processVideo run the temp frames directory is
\* removed exactly once, after the encode has ended and before the complete
\* event is emitted.
C25_RemovedOnceBeforeComplete ==
  /\ [][(jobPc # "removing" /\ jobPc' = "removing") =>
          (jobPc = "encoding" /\ removeCalls = 0 /\ tempFrames' = tempFrames)]_vars
  /\ [][removeStep =>
          (/\ tempFrames' = {}
           /\ stageEvents("complete") = <<>>
           /\ events' = Append(events, ProcessingEvent("complete", "")))]_vars
  /\ [](jobPc = "done" =>
          (/\ removeCalls = 1
           /\ tempFrames = {}
           /\ Len(stageEvents("complete")) = 1))
  /\ [](stageEvents("complete") # <<>> => jobPc = "done")

\* A run with frame files on disk has completed.
C25_Witness ==
  /\ jobPc = "done"
  /\ Len(frames) >= 2

\* the frames whose classification call failed (analyzeFrame's catch block
\* ran): the error event was delivered, or the emit threw and the frame's
\* callback rejected
thrownFrames ==
  {frames[j] : j \in {i \in DOMAIN frameState : frameState[i] = "failed"}}
    \cup (Range(errorEvents) \ {0})

\* C26: for each classification call that fails, exactly one error event is
\* delivered on the VideoProcessor's error channel, carrying the failing
\* frame's number, and the failure is never propagated as fatal: no frame's
\* callback rejects, so the job runs on towards the complete stage.
C26_ErrorEventPerFailure ==
  /\ \A f \in thrownFrames :
       Cardinality({k \in DOMAIN errorEvents : errorEvents[k] = f}) = 1
  /\ \A j \in DOMAIN frameState : frameState[j] # "failed"

\* C27: a VideoProcessor built without analyzerConfig has no analyzer; its
\* processVideo makes no extraction call and no classification call, emits no
\* extracting_frames and no analyzing_frames event, and still encodes the
\* video, as the whole clip, on its way to complete.
C27_NoAnalyzerSkipsAnalysis ==
  ~anConfig.given =>
    /\ extractCalls = 0
    /\ anCalls = 0
    /\ frameState = <<>>
    /\ stageEvents("extracting_frames") = <<>>
    /\ stageEvents("analyzing_frames") = <<>>
    /\ jobPc \in {"start", "ensureDir", "rejected", "encoding", "removing",
                  "done"}
    /\ jobPc \in {"encoding", "removing", "done"} =>
         /\ Len(plan) = 1
         /\ plan[1].segments = <<>>
         /\ plan[1].command.complexFilter =
              <<Tok("[0:v]", 0, 0)>> \o ReframeChain
         /\ Len(stageEvents("compiling_video")) >= 1
    /\ jobPc = "done" => Len(stageEvents("complete")) = 1

\* A processor without an analyzer has completed a video.
C27_Witness ==
  /\ ~anConfig.given
  /\ jobPc = "done"
  /\ Len(plan) = 1

----------------------------------------------------------------------------
(* Progress of the job scheduler, checked under SpecSchedFair *)

\* C28: under fair scheduling of the polling timer, and with every started
\* processVideo call settling in the end, processVideosInParallel eventually
\* returns, for every input list and every concurrency bound N >= 1.
C28_EventuallyReturns ==
  JsLt(0, maxConcurrent(jobs, cpus)) => <>(schedPc = "returned")

\* The scheduler has returned after a list as long as the model allows, one
\* of whose calls rejected.
C28_Witness ==
  /\ schedPc = "returned"
  /\ Len(started) = MaxVideos
  /\ errorLog # <<>>

----------------------------------------------------------------------------
(* The order of admission, checked under SpecSched *)

\* C29: processVideosInParallel starts processVideo exactly once for every
\* element of the input list, in the list's order: the videos started so far
\* are the list's first ones in its order, one call each (none started before
\* a video that precedes it, none twice, none skipped), the rest is the queue,
\* and when the scheduler returns every element has been started.
C29_FifoExactlyOnce ==
  /\ started \o queue = videoFiles
  /\ Len(call) = Len(started)
  /\ NoDup(started)
  /\ schedPc = "returned" => started = videoFiles

\* Two videos have been started, one of them has settled, and a third is
\* still queued.
C29_Witness ==
  /\ Len(started) >= 2
  /\ Len(queue) >= 1
  /\ \E i \in DOMAIN call : call[i] # "pending"

----------------------------------------------------------------------------
(* The phases of one job, checked under SpecJob *)

\* C30: within one job the phases are strictly sequential: no classification
\* call is started before frame extraction has ended, the encode is started
\* only after the classification of every frame has settled, and temp
\* cleanup is started only after the encode has ended.
C30_PhasesSequential ==
  /\ jobPc \in {"start", "ensureDir", "extracting", "readdir"} =>
       /\ anCalls = 0
       /\ frameState = <<>>
       /\ plan = <<>>
  /\ (plan # <<>> \/ jobPc \in {"encoding", "removing", "done"}) =>
       /\ \A j \in DOMAIN frameState : frameState[j] = "done"
       /\ anCalls = Len(frames)
  /\ jobPc \in {"analyzing", "encoding"} => removeCalls = 0
  /\ removeCalls > 0 => (plan # <<>> /\ jobPc \in {"removing", "done"})

\* The encode has started after the frames of several batches were
\* classified, one of them with a failed call.
C30_Witness ==
  /\ jobPc = "encoding"
  /\ Len(frames) > parallelFrames
  /\ errorEvents # <<>>

----------------------------------------------------------------------------
(* The text of the segment chains, checked under SpecPlan *)

\* what the round of the k-th emitted segment appended to filterComplex
segmentChain(built, k) ==
  SubSeq(built.filterComplex, lengthAfter(k - 1) + 1, lengthAfter(k))

\* a chain without what may differ between segments: the numbers of its
\* trim and of its label, and which speed filter it holds
chainShape(chain) ==
  [i \in DOMAIN chain |->
     IF chain[i].t \in {"copy", "setpts=0.5*PTS"} THEN Tok("speed", 0, 0)
     ELSE Tok(chain[i].t, 0, 0)]

\* C31: every emitted segment's filter chain contains the reframing transform
\* (scale, crop, pad) exactly once and nothing from any other segment: the
\* chain of the k-th emitted segment is, apart from its trim bounds, its
\* speed filter and its label, the chain of the first one.
C31_ChainPerSegment ==
  \A p \in DOMAIN plan :
    \A k \in DOMAIN plan[p].segments :
      LET chain == segmentChain(plan[p], k) IN
        /\ \A t \in {"scale", "crop", "pad"} :
             Cardinality({i \in DOMAIN chain : chain[i].t = t}) = 1
        /\ Cardinality({i \in DOMAIN chain : chain[i].t = "trim"}) = 1
        /\ chainShape(chain) = chainShape(segmentChain(plan[p], 1))

----------------------------------------------------------------------------
(* Several jobs of one run: processVideosInParallel admits them, and each   *)
(* runs analyzeFrames on the one VideoProcessor and Analyzer they share.    *)
(* What a job does before and after its classification phase is one step.  *)

\* a job that is still in the queue
QueuedJob ==
  [pc |-> "queued", inProgress |-> FALSE, batchStart |-> 0,
   frameState |-> <<>>]

\* inProgress.size
fleetInProgress == {k \in DOMAIN fleet : fleet[k].inProgress}

\* frames.slice(i, i + this.config.parallelFrames) of a job with n frame files
fleetBatch(i, n) ==
  {j \in 1..n : i <= j /\ j < i + fleetConfig.parallelFrames}

FleetInit ==
  /\ SchedIdle
  /\ AnalyzerIdle
  /\ PlanIdle
  /\ JobIdle
  /\ PathsIdle
  /\ CliIdle
  /\ RunsIdle
  /\ fleetConfig \in [maxConcurrent : 1..MaxCpus,
                      parallelFrames : 1..MaxParallel,
                      errorListener : BOOLEAN]
  /\ fleet = [k \in 1..MaxFleet |-> QueuedJob]

\* A round of the scheduler's inner loop: queue.shift(), inProgress.add(video),
\* processVideo(videoPath), which runs up to the end of its frame extraction.
fleetAdmit(k) ==
  /\ k \in DOMAIN fleet
  /\ fleet[k].pc = "queued"
  /\ \A h \in 1..(k - 1) : fleet[h].pc # "queued"
  /\ Cardinality(fleetInProgress) < fleetConfig.maxConcurrent
  /\ fleet' = [fleet EXCEPT ![k].pc = "extracting", ![k].inProgress = TRUE]
  /\ UNCHANGED fleetConfig
  /\ UNCHANGED notFleet

\* analyzeFrames: fs.readdir resolves with n files; the callbacks of the first
\* batch run up to their readFile (with no file, on to applyActions).
fleetReaddir(k, n) ==
  /\ k \in DOMAIN fleet
  /\ fleet[k].pc = "extracting"
  /\ fleet' = [fleet EXCEPT
       ![k].pc = IF n = 0 THEN "encoding" ELSE "analyzing",
       ![k].batchStart = IF n = 0 THEN 0 ELSE 1,
       ![k].frameState = [j \in 1..n |-> IF j \in fleetBatch(1, n)
                                           THEN "reading" ELSE "waiting"]]
  /\ UNCHANGED fleetConfig
  /\ UNCHANGED notFleet

\* fs.readFile of a frame resolves: analyzeFrame makes its classification call.
fleetReadFile(k, j) ==
  /\ k \in DOMAIN fleet
  /\ j \in DOMAIN fleet[k].frameState
  /\ fleet[k].frameState[j] = "reading"
  /\ fleet' = [fleet EXCEPT ![k].frameState[j] = "classifying"]
  /\ UNCHANGED fleetConfig
  /\ UNCHANGED notFleet

\* fs.readFile of a frame rejects: the callback rejects, Promise.all rejects
\* and processVideo with it; the other callbacks of the batch go on.
fleetReadFileFails(k, j) ==
  /\ k \in DOMAIN fleet
  /\ j \in DOMAIN fleet[k].frameState
  /\ fleet[k].frameState[j] = "reading"
  /\ fleet' = [fleet EXCEPT
       ![k].frameState[j] = "failed",
       ![k].pc = IF @ = "analyzing" THEN "rejected" ELSE @]
  /\ UNCHANGED fleetConfig
  /\ UNCHANGED notFleet

\* The classification call of a frame settles. A call that throws is
\* recovered when the "error" event has a listener; with none the emit throws
\* and the callback rejects. When the batch's last callback resolves the
\* next batch starts, or analyzeFrames returns and applyActions runs.
fleetClassifyDone(k, j, outcome) ==
  /\ k \in DOMAIN fleet
  /\ j \in DOMAIN fleet[k].frameState
  /\ fleet[k].frameState[j] = "classifying"
  /\ LET job == fleet[k]
         n == Len(job.frameState)
         done == [job.frameState EXCEPT ![j] = "done"]
         next == job.batchStart + fleetConfig.parallelFrames
     IN
       IF outcome = "throws" /\ ~fleetConfig.errorListener
         THEN fleet' = [fleet EXCEPT
                ![k].frameState[j] = "failed",
                ![k].pc = IF @ = "analyzing" THEN "rejected" ELSE @]
       ELSE IF ~(/\ job.pc = "analyzing"
                 /\ \A b \in fleetBatch(job.batchStart, n) : done[b] = "done")
         THEN fleet' = [fleet EXCEPT ![k].frameState = done]
       ELSE IF next <= n
         THEN fleet' = [fleet EXCEPT
                ![k].frameState =
                   [b \in 1..n |-> IF b \in fleetBatch(next, n) THEN "reading"
                                   ELSE done[b]],
                ![k].batchStart = next]
       ELSE fleet' = [fleet EXCEPT ![k].frameState = done,
                                   ![k].pc = "encoding"]
  /\ UNCHANGED fleetConfig
  /\ UNCHANGED notFleet

\* applyActions ends or fails, and with it processVideo.
fleetEncodeEnds(k, outcome) ==
  /\ k \in DOMAIN fleet
  /\ fleet[k].pc = "encoding"
  /\ fleet' = [fleet EXCEPT ![k].pc = outcome]
  /\ UNCHANGED fleetConfig
  /\ UNCHANGED notFleet

\* the scheduler's then / catch: inProgress.delete(video)
fleetHandler(k) ==
  /\ k \in DOMAIN fleet
  /\ fleet[k].pc \in {"resolved", "rejected"}
  /\ fleet[k].inProgress
  /\ fleet' = [fleet EXCEPT ![k].inProgress = FALSE]
  /\ UNCHANGED fleetConfig
  /\ UNCHANGED notFleet

FleetNext ==
  \/ \E k \in 1..MaxFleet : fleetAdmit(k)
  \/ \E k \in 1..MaxFleet : \E n \in 0..MaxFleetFrames : fleetReaddir(k, n)
  \/ \E k \in 1..MaxFleet : \E j \in 1..MaxFleetFrames : fleetReadFile(k, j)
  \/ \E k \in 1..MaxFleet : \E j \in 1..MaxFleetFrames :
       fleetReadFileFails(k, j)
  \/ \E k \in 1..MaxFleet : \E j \in 1..MaxFleetFrames :
       \E outcome \in {"ok", "throws"} : fleetClassifyDone(k, j, outcome)
  \/ \E k \in 1..MaxFleet : \E outcome \in {"resolved", "rejected"} :
       fleetEncodeEnds(k, outcome)
  \/ \E k \in 1..MaxFleet : fleetHandler(k)

SpecFleet == FleetInit /\ [][FleetNext]_vars

----------------------------------------------------------------------------
(* Claims about the two layers together, checked under SpecFleet *)

\* the classification calls in flight, over all jobs
fleetCallsInFlight ==
  {<<k, j>> \in (1..MaxFleet) \X (1..MaxFleetFrames) :
     /\ j \in DOMAIN fleet[k].frameState
     /\ fleet[k].frameState[j] = "classifying"}

\* a call of job k settles in this step
ownCallSettles(k) ==
  \E j \in DOMAIN fleet[k].frameState :
    /\ fleet[k].frameState[j] = "classifying"
    /\ fleet'[k].frameState[j] # "classifying"

\* C32: with job bound N and batch size P, and one VideoProcessor and one
\* Analyzer shared by all jobs, at most N * P classification calls are in
\* flight in total at every instant, and the batch barrier of a job is
\* released only by a classification call of that job.
C32_LayersCompose ==
  /\ [](Cardinality(fleetCallsInFlight) <=
          fleetConfig.maxConcurrent * fleetConfig.parallelFrames)
  /\ [][\A k \in 1..MaxFleet :
          (fleet[k].pc = "analyzing" /\
           fleet'[k].batchStart # fleet[k].batchStart) => ownCallSettles(k)]_vars

----------------------------------------------------------------------------
(* The window handed to the transcoder, checked under SpecPaths *)

\* HH:MM:SS is 3600*H + 60*M + S, MM:SS is 60*M + S
secondsOf(time) ==
  IF Len(time) = 3 THEN 3600 * time[1] + 60 * time[2] + time[3]
  ELSE 60 * time[1] + time[2]

\* C33: whenever an end time is in effect, the duration passed to the
\* transcoder is the seconds of the end minus the seconds of the start, the
\* start being 0 when no start time is in effect; the start time is passed to
\* the transcoder if and only if one is in effect.
C33_DurationAndStart ==
  \A i \in DOMAIN jobPaths :
    LET job == jobPaths[i]
        command == windowCommand(job)
    IN
      /\ command.hasDuration <=> (job.endTime # <<>>)
      /\ job.endTime # <<>> =>
           command.setDuration =
             secondsOf(job.endTime) -
             (IF job.startTime # <<>> THEN secondsOf(job.startTime) ELSE 0)
      /\ (command.setStartTime # <<>>) <=> (job.startTime # <<>>)
      /\ job.startTime # <<>> => command.setStartTime = job.startTime

\* processVideo ran with the window 01:30:00 to 01:35:00, and with an end
\* time and no start time.
C33_Witness ==
  /\ \E i \in DOMAIN jobPaths :
       jobPaths[i].startTime = <<1, 30, 0>> /\ jobPaths[i].endTime = <<1, 35, 0>>
  /\ \E i \in DOMAIN jobPaths :
       jobPaths[i].startTime = <<>> /\ jobPaths[i].endTime = <<1, 30>>

----------------------------------------------------------------------------
(* The plan against the order in which the classifications completed *)

\* the entries of an ActionMap in ascending key order: what every completion
\* order of the same per-frame results has in common
byKey(m) ==
  LET keys == SortAsc({m[i].key : i \in DOMAIN m}) IN
    [i \in DOMAIN keys |-> MapGet(m, keys[i])]

\* C34: the plan handed to the transcoder (segments, labels, skip signals, in
\* order) is the plan of the per-frame results taken in timestamp order,
\* whatever the order in which the classifications of the job completed, that
\* is, whatever the insertion order of the ActionMap analyzeFrames returns.
C34_PlanIgnoresCompletionOrder ==
  \A p \in DOMAIN plan :
    plan[p] = applyActions(byKey(actions), anConfig, startTime, endTime)

\* a plan was built from results that completed out of timestamp order, and
\* it has a segment and a skip signal
C34_Witness ==
  /\ plan # <<>>
  /\ \E i, j \in DOMAIN actions : i < j /\ actions[i].key > actions[j].key
  /\ plan[1].segments # <<>>
  /\ plan[1].events # <<>>

----------------------------------------------------------------------------
(* processVideosInParallel called with any list of names *)

\* the lists the function accepts: string[], the same name possibly twice
AnyVideoLists == {s \in SeqsUpTo(VideoNames, MaxVideos) : Len(s) >= 1}

SchedInitAnyList ==
  /\ AnalyzerIdle
  /\ PlanIdle
  /\ JobIdle
  /\ PathsIdle
  /\ CliIdle
  /\ FleetIdle
  /\ RunsIdle
  /\ videoFiles \in AnyVideoLists
  /\ jobs \in JobsInputs
  /\ cpus \in 1..MaxCpus
  /\ queue = videoFiles
  /\ inProgress = {}
  /\ started = <<>>
  /\ call = <<>>
  /\ reaction = 0
  /\ handled = {}
  /\ errorLog = <<>>
  /\ schedPc = "while"

SpecSchedAnyList == SchedInitAnyList /\ [][SchedNext]_vars

\* the processVideo calls started whose then/catch reaction has not run
unsettledCalls == {i \in DOMAIN call : i \notin handled}

----------------------------------------------------------------------------
(* Recovery of a failed classification call, with and without listeners *)

\* C36: a failed classification call is recovered to the default keep result
\* (its frame gets the entry keep at confidence 1.0) and processVideo does not
\* reject for it, whether or not a listener is registered on the error
\* channel of the VideoProcessor: emitting the error signal never makes
\* analyzeFrame or processVideo reject.
C36_RecoveredWithoutListener ==
  /\ \A f \in failedFrames :
       \E i \in DOMAIN actions :
         /\ actions[i].frame = f
         /\ actions[i].action = "keep"
         /\ actions[i].confidence = 100
  /\ (jobPc = "rejected" /\ frameState # <<>>) =>
       stageEvents("applying_modifications") # <<>>

----------------------------------------------------------------------------
(* The temp directory of one video name over successive processVideo calls: *)
(* extractFrames writes into it, analyzeFrames reads it back and classifies *)
(* what it finds, and only a run that reaches cleanup removes it.           *)

\* a file name: frame-<n>.jpg as written by the extraction, or a name the
\* pattern /frame-(\d+)\.jpg/ does not match (n tells such names apart)
FrameFile(n) == [kind |-> "frame", n |-> n]

OtherFile(n) == [kind |-> "other", n |-> n]

\* files found in <tempDir>/<videoName> that no run wrote: the directory is
\* any path the user passes with --temp joined with the video's name
OtherFiles == {OtherFile(1), OtherFile(2)}

\* Number(options.parallelFrames): 1, 2, a value above every frame count, 0,
\* a negative value, and NaN for a text that is no number
ParallelInputs == {1, 2, 100, 0, -1, NaN}

RunConfigs == [parallelFrames : ParallelInputs, frameInterval : FrameIntervals]

\* Number.parseInt(frame.match(/frame-(\d+)\.jpg/)?.[1] ?? "0", 10)
frameNumberOf(file) == IF file.kind = "frame" THEN file.n ELSE 0

\* the relative index of Array.prototype.slice: NaN is 0, a negative index
\* counts from the end, and the result stays within 0..len
sliceIndex(x, len) ==
  IF x = NaN THEN 0
  ELSE IF x < 0 THEN (IF len + x < 0 THEN 0 ELSE len + x)
  ELSE IF x > len THEN len ELSE x

\* frames.slice(start, end), as indices of frames
slice(list, start, end) ==
  {k \in DOMAIN list :
     sliceIndex(start, Len(list)) < k /\ k <= sliceIndex(end, Len(list))}

\* a + b of two numbers
jsAdd(a, b) == IF a = NaN \/ b = NaN THEN NaN ELSE a + b

\* the orders fs.readdir may list a directory in
listings(S) ==
  {s \in [1..Cardinality(S) -> S] : \A x \in S : \E i \in DOMAIN s : s[i] = x}

RunsInit ==
  /\ SchedIdle
  /\ AnalyzerIdle
  /\ PlanIdle
  /\ JobIdle
  /\ PathsIdle
  /\ CliIdle
  /\ FleetIdle
  /\ tempDir \in SUBSET OtherFiles
  /\ runConfig \in RunConfigs
  /\ runs = 0
  /\ runPc = "start"
  /\ written = {}
  /\ loopFrames = <<>>
  /\ loopI = 0
  /\ pendingFrames = {}
  /\ classified = <<>>
  /\ loopActions = <<>>

\* processVideo is called: await fs.ensureDir(tempFramesDir) keeps what the
\* directory holds, then await this.extractFrames(...) starts the extraction.
runStarts ==
  /\ runPc = "start"
  /\ runs < MaxRuns
  /\ runs' = runs + 1
  /\ runPc' = "extracting"
  /\ written' = {}
  /\ loopFrames' = <<>>
  /\ loopI' = 0
  /\ pendingFrames' = {}
  /\ classified' = <<>>
  /\ loopActions' = <<>>
  /\ UNCHANGED <<tempDir, runConfig>>
  /\ UNCHANGED notRuns

\* extractFrames .on("end"): the video gave K frames, written as
\* frame-1.jpg .. frame-K.jpg with -y over what was there; then
\* const actions = new Map(), await fs.readdir(framesDir).
runExtracts(K) ==
  /\ runPc = "extracting"
  /\ written' = {FrameFile(n) : n \in 1..K}
  /\ tempDir' = tempDir \cup {FrameFile(n) : n \in 1..K}
  /\ runPc' = "readdir"
  /\ UNCHANGED <<runConfig, runs, loopFrames, loopI, pendingFrames,
                 classified, loopActions>>
  /\ UNCHANGED notRuns

\* fs.readdir resolves with the directory's names, in the order the file
\* system lists them; for (let i = 0; ...
runReaddir ==
  /\ runPc = "readdir"
  /\ \E list \in listings(tempDir) : loopFrames' = list
  /\ loopI' = 0
  /\ runPc' = "loopTest"
  /\ UNCHANGED <<tempDir, runConfig, runs, written, pendingFrames, classified,
                 loopActions>>
  /\ UNCHANGED notRuns

\* i < frames.length: the batch frames.slice(i, i + parallelFrames) and its
\* callbacks, up to await Promise.all(batchPromises); or the loop ends,
\* analyzeFrames returns and processVideo goes on to the encode.
loopTest ==
  /\ runPc = "loopTest"
  /\ IF JsLt(loopI, Len(loopFrames))
       THEN /\ pendingFrames' =
                 slice(loopFrames, loopI,
                       jsAdd(loopI, runConfig.parallelFrames))
            /\ runPc' = "batch"
       ELSE /\ runPc' = "encoding"
            /\ UNCHANGED pendingFrames
  /\ UNCHANGED <<tempDir, runConfig, runs, written, loopFrames, loopI,
                 classified, loopActions>>
  /\ UNCHANGED notRuns

\* The callback of frames[j] runs to its end: readFile and analyzeFrame have
\* resolved, actions.set(frameNumber * this.config.frameInterval, analysis).
frameClassified(j) ==
  /\ runPc = "batch"
  /\ j \in pendingFrames
  /\ pendingFrames' = pendingFrames \ {j}
  /\ classified' = Append(classified, loopFrames[j])
  /\ loopActions' =
       MapSet(loopActions,
              [key |-> frameKey(frameNumberOf(loopFrames[j]),
                                runConfig.frameInterval),
               file |-> loopFrames[j]])
  /\ UNCHANGED <<tempDir, runConfig, runs, runPc, written, loopFrames, loopI>>
  /\ UNCHANGED notRuns

\* Promise.all(batchPromises) resolves (at once for an empty batch):
\* i += this.config.parallelFrames, and back to the loop's test.
batchEnds ==
  /\ runPc = "batch"
  /\ pendingFrames = {}
  /\ loopI = NaN \/ loopI >= -MaxBelowZero
  /\ loopI' = jsAdd(loopI, runConfig.parallelFrames)
  /\ runPc' = "loopTest"
  /\ UNCHANGED <<tempDir, runConfig, runs, written, loopFrames, pendingFrames,
                 classified, loopActions>>
  /\ UNCHANGED notRuns

\* The encode ends: await fs.remove(tempFramesDir), and processVideo resolves.
runCompletes ==
  /\ runPc = "encoding"
  /\ tempDir' = {}
  /\ runPc' = "start"
  /\ UNCHANGED <<runConfig, runs, written, loopFrames, loopI, pendingFrames,
                 classified, loopActions>>
  /\ UNCHANGED notRuns

\* The encode fails: processVideo rejects before the cleanup, the directory
\* stays as it is.
runFailsInEncode ==
  /\ runPc = "encoding"
  /\ runPc' = "start"
  /\ UNCHANGED <<tempDir, runConfig, runs, written, loopFrames, loopI,
                 pendingFrames, classified, loopActions>>
  /\ UNCHANGED notRuns

RunsNext ==
  \/ runStarts
  \/ \E K \in 0..MaxRunFrames : runExtracts(K)
  \/ runReaddir
  \/ loopTest
  \/ \E j \in 1..(MaxRunFrames + Cardinality(OtherFiles)) : frameClassified(j)
  \/ batchEnds
  \/ runCompletes
  \/ runFailsInEncode

SpecRuns == RunsInit /\ [][RunsNext]_vars

\* The same with its progress conditions: the event loop runs every callback
\* that is ready, and every classification call settles.
SpecRunsFair ==
  /\ RunsInit
  /\ [][RunsNext]_vars
  /\ WF_vars(loopTest)
  /\ WF_vars(batchEnds)
  /\ WF_vars(runReaddir)
  /\ \A j \in 1..(MaxRunFrames + Cardinality(OtherFiles)) :
       WF_vars(frameClassified(j))

\* C37: over any sequence of processVideo runs for one video name, a run that
\* follows a run that failed in the encode included, no frame file left by an
\* earlier run is classified: every frame file a run classifies was written
\* by that run's own extraction.
C37_OnlyOwnFrames ==
  \A k \in DOMAIN classified :
    classified[k].kind = "frame" => classified[k] \in written

\* C38: after the classification phase every file found in the temp
\* directory has an entry of its own in the ActionMap: no two files map to
\* the same timestamp key, names that do not match frame-<n>.jpg included.
C38_EntryPerFile ==
  runPc = "encoding" =>
    \A k \in DOMAIN classified :
      \E e \in DOMAIN loopActions : loopActions[e].file = classified[k]

\* C39: for every configured parallelFrames value, analyzeFrames terminates
\* once every classification call settles, and by then it has classified
\* every frame file exactly once.
C39_TerminatesEachOnce ==
  /\ [](runPc = "encoding" =>
          \A i \in DOMAIN loopFrames :
            Cardinality({k \in DOMAIN classified :
                           classified[k] = loopFrames[i]}) = 1)
  /\ (runPc = "loopTest" ~> runPc = "encoding")

====
